---- MODULE Spec2Model ----
(***************************************************************************)
(* Model of the lipservice adaptive sampling core:                         *)
(*   - AdaptiveSampler (sdk/python/lipservice/sampler.py) with its         *)
(*     foreground decision path and its two background loops,              *)
(*   - LipServiceClient outcomes (sdk/python/lipservice/client.py),        *)
(*   - PolicyGenerator validation (src/engine/policy_generator.py).        *)
(* Rates are fixed-point numbers: One stands for 1.0.                      *)
(***************************************************************************)
EXTENDS Integers, Sequences, FiniteSets, TLC

VARIABLES
    running,        \* AdaptiveSampler._running
    policy,         \* AdaptiveSampler.policy (None or a SamplingPolicy)
    pattern_stats,  \* AdaptiveSampler.pattern_stats: signature -> stats
    policy_task,    \* position of _policy_refresh_loop
    report_task,    \* position of _pattern_report_loop
    report_payload, \* payload built by the loop's _report_patterns call in flight
    start_pc,       \* position of a start() call
    stop_pc,        \* position of a stop() call
    stop_payload,   \* payload built by stop()'s final _report_patterns call
    call,           \* the should_sample call in progress / its result
    unacked,        \* history: per signature, the number of most recent counted
                    \* observations not yet contained in a successfully reported payload
    ncalls,         \* history: number of should_sample calls begun
    gen,            \* PolicyGenerator.generate_policy call: provider outcome and result
    lru,            \* an LRUSignatureCache: _cache, _memory_usage, _hits, _misses
    ana,            \* a LogAnalyzer.analyze call: batch, known signatures, result
    norm,           \* compute_signature calls on a pair of messages
    life,           \* the sampler's coroutines: start/stop calls and loop tasks
    thr,            \* threads inside should_sample on one shared sampler
    det,            \* an AnomalyDetector call: rates passed in, anomaly returned
    mem             \* a PatternMemory: the patterns it stores

vars == <<running, policy, pattern_stats, policy_task, report_task, report_payload,
          start_pc, stop_pc, stop_payload, call, unacked, ncalls, gen, lru, ana,
          norm, life, thr, det, mem>>

\* the state of the AdaptiveSampler alone
sampler_vars == <<running, policy, pattern_stats, policy_task, report_task,
                  report_payload, start_pc, stop_pc, stop_payload, call, unacked,
                  ncalls>>

----------------------------------------------------------------------------
(* Bounds and constants *)

\* fixed-point unit: the rate 1.0
One == 2

\* AdaptiveSampler.max_pattern_cache_size as configured for the model
max_pattern_cache_size == 1

\* number of should_sample calls explored
MaxCalls == 2

None == [tag |-> "None"]

EmptyMap == [x \in {} |-> 0]

----------------------------------------------------------------------------
(* Signatures *)

Digits == {"7", "8"}

\* messages are sequences of word tokens
Messages == { <<"user", "7">>, <<"user", "8">>, <<"db">> }

\* lipservice.signature.compute_signature: numbers become the placeholder N;
\* the normalized text stands for its MD5 digest
compute_signature(message) ==
    [i \in DOMAIN message |-> IF message[i] \in Digits THEN "N" ELSE message[i]]

Signatures == { compute_signature(m) : m \in Messages }

----------------------------------------------------------------------------
(* Severities *)

\* severity strings as passed by callers
Severities == {"info", "debug", "error", "CRITICAL", "Fatal"}

\* str.upper()
Upper(s) ==
    CASE s = "info"     -> "INFO"
      [] s = "debug"    -> "DEBUG"
      [] s = "error"    -> "ERROR"
      [] s = "CRITICAL" -> "CRITICAL"
      [] s = "Fatal"    -> "FATAL"
      [] OTHER          -> s

\* variant: FATAL is left out of the always-sampled severities
AlwaysSampleWithoutFatal == {"ERROR", "CRITICAL"}

ALWAYS_SAMPLE_SEVERITIES == {"ERROR", "CRITICAL", "FATAL"}

----------------------------------------------------------------------------
(* SamplingPolicy *)

SigUser == compute_signature(<<"user", "7">>)
SigDb   == compute_signature(<<"db">>)

\* policies the policy store may serve
Policies == {
    \* pattern rate 0.0 under severity rate 1.0
    [version |-> 1, global_rate |-> One \div 2,
     severity_rates |-> [s \in {"INFO", "ERROR", "CRITICAL"} |-> One],
     pattern_rates |-> [s \in {SigUser} |-> 0]],
    \* severity rates 0.0, also for ERROR
    [version |-> 2, global_rate |-> One \div 2,
     severity_rates |-> [s \in {"INFO", "ERROR"} |-> 0],
     pattern_rates |-> [s \in {SigDb} |-> 0]] }

\* variant: pattern rates are never consulted
has_pattern_rate_never(p, signature) == FALSE

\* SamplingPolicy.get_pattern_rate(signature) is not None
has_pattern_rate(p, signature) == signature \in DOMAIN p.pattern_rates

\* SamplingPolicy.get_pattern_rate
get_pattern_rate(p, signature) == p.pattern_rates[signature]

\* SamplingPolicy.get_severity_rate
get_severity_rate(p, severity) ==
    IF Upper(severity) \in DOMAIN p.severity_rates
    THEN p.severity_rates[Upper(severity)]
    ELSE p.global_rate

\* random.random() draws from [0, 1)
Draws == 0 .. (One - 1)

----------------------------------------------------------------------------
(* PatternStats table *)

\* AdaptiveSampler._default_pattern_stats (the count; the message sample, the
\* severity histogram and the timestamps are carried along and never read back)
_default_pattern_stats == [count |-> 0]

\* variant: the capacity test compares with > instead of >=
CacheFullOffByOne(stats, signature) ==
    signature \notin DOMAIN stats /\ Cardinality(DOMAIN stats) > max_pattern_cache_size

\* the capacity test at the head of _track_pattern: TRUE when the observation is dropped
CacheFull(stats, signature) ==
    signature \notin DOMAIN stats /\ Cardinality(DOMAIN stats) >= max_pattern_cache_size

\* AdaptiveSampler._track_pattern: the table after the call
_track_pattern(stats, signature) ==
    IF CacheFull(stats, signature)
    THEN stats
    ELSE LET old == IF signature \in DOMAIN stats THEN stats[signature]
                    ELSE _default_pattern_stats
             new == [old EXCEPT !.count = @ + 1]
         IN [s \in DOMAIN stats \cup {signature} |->
                IF s = signature THEN new ELSE stats[s]]

\* number of observations of a signature held by the table
CountOf(stats, signature) ==
    IF signature \in DOMAIN stats THEN stats[signature].count ELSE 0

ZeroCounts == [s \in Signatures |-> 0]

\* no report in flight
NoPayload == [count |-> EmptyMap, since |-> ZeroCounts]

\* the list of PatternStats built by _report_patterns (signature -> count);
\* since: observations counted per signature after the list was built
BuildPayload(stats) ==
    [count |-> [s \in DOMAIN stats |-> stats[s].count], since |-> ZeroCounts]

\* an observation of the signature is counted while the payload is in flight
Aged(payload, signature) ==
    IF payload = NoPayload THEN payload
    ELSE [payload EXCEPT !.since[signature] = @ + 1]

\* a payload was reported successfully: it held, per signature, the observations
\* since+1 .. since+count counted back from the most recent one
Acked(u, payload) ==
    [s \in Signatures |->
        IF /\ s \in DOMAIN payload.count
           /\ u[s] > payload.since[s]
           /\ u[s] <= payload.since[s] + payload.count[s]
        THEN payload.since[s]
        ELSE u[s]]

----------------------------------------------------------------------------
(* Collaborator outcomes *)

\* LipServiceClient.get_active_policy: a policy, None (404, HTTP error, any
\* exception is caught by the client), or an exception raised by a client double
FetchOutcomes ==
    { [kind |-> "policy", policy |-> p] : p \in Policies }
    \cup { [kind |-> "none", policy |-> None], [kind |-> "raise", policy |-> None] }

\* LipServiceClient.report_patterns: True, False, or an exception
ReportOutcomes == {"success", "failure", "raise"}

\* variant: whatever get_active_policy returned is assigned
AssignedUnchecked(current, outcome) == outcome.policy

\* the assignment inside AdaptiveSampler._refresh_policy
RefreshedPolicy(current, outcome) ==
    IF outcome.kind = "policy" THEN outcome.policy ELSE current

\* variant: the table is cleared whatever report_patterns answered
ReportedStatsAlwaysClear(stats, outcome) == EmptyMap

\* the effect of _report_patterns after report_patterns has answered
ReportedStats(stats, outcome) ==
    IF outcome = "success" THEN EmptyMap ELSE stats

\* `while self._running` at the head of a background loop
LoopNext == IF running THEN "sleeping" ELSE "done"

\* variant: a tick that failed ends the loop
LoopEndsOnFailure(failed) == IF running /\ ~failed THEN "sleeping" ELSE "done"

\* the end of one pass of a background loop: a failure was logged by
\* `except Exception` (or inside the callee) and the loop returns to its head
LoopAfterTick(failed) == LoopNext

\* positions of a _report_patterns call that awaits report_patterns or holds its answer
InFlight == {"reporting", "success", "failure", "raise"}

----------------------------------------------------------------------------
(* Initial state: a constructed, stopped sampler *)

IdleCall == [pc |-> "idle", severity |-> "", signature |-> <<>>, seen |-> <<>>,
             r |-> 0, rate |-> 0, keep |-> FALSE]

GenIdle == [pc |-> "idle"]

\* a component no call has been made on
NotInUse == [pc |-> "idle"]

SamplerInit ==
    /\ running = FALSE
    /\ policy = None
    /\ pattern_stats = EmptyMap
    /\ policy_task = "none"
    /\ report_task = "none"
    /\ report_payload = NoPayload
    /\ start_pc = "idle"
    /\ stop_pc = "idle"
    /\ stop_payload = NoPayload
    /\ call = IdleCall
    /\ unacked = ZeroCounts
    /\ ncalls = 0

Init ==
    /\ SamplerInit
    /\ det = NotInUse
    /\ mem = NotInUse
    /\ life = NotInUse
    /\ thr = NotInUse
    /\ gen = GenIdle
    /\ lru = NotInUse
    /\ ana = NotInUse
    /\ norm = NotInUse

----------------------------------------------------------------------------
(* AdaptiveSampler.start *)

\* start() up to the await of the initial _refresh_policy
StartBegin ==
    /\ start_pc = "idle"
    /\ ~running
    /\ running' = TRUE
    /\ start_pc' = "fetching"
    /\ UNCHANGED <<policy, pattern_stats, policy_task, report_task, report_payload,
                   stop_pc, stop_payload, call, unacked, ncalls, gen, lru,
                   ana, norm, life, thr, det, mem>>

\* the initial fetch answers; start() creates both loop tasks and returns
StartFetchDone(outcome) ==
    /\ start_pc = "fetching"
    /\ policy' = RefreshedPolicy(policy, outcome)
    /\ policy_task' = LoopNext
    /\ report_task' = LoopNext
    /\ report_payload' = NoPayload
    /\ start_pc' = "idle"
    /\ UNCHANGED <<running, pattern_stats, stop_pc, stop_payload, call, unacked,
                   ncalls, gen, lru,
                   ana, norm, life, thr, det, mem>>

----------------------------------------------------------------------------
(* AdaptiveSampler._policy_refresh_loop *)

\* the sleep elapses and _refresh_policy issues the fetch
PolicyTick ==
    /\ policy_task = "sleeping"
    /\ policy_task' = "fetching"
    /\ UNCHANGED <<running, policy, pattern_stats, report_task, report_payload,
                   start_pc, stop_pc, stop_payload, call, unacked, ncalls, gen, lru,
                   ana, norm, life, thr, det, mem>>

\* the fetch answers; the policy reference is replaced when a policy came back
PolicyFetchDone(outcome) ==
    /\ policy_task = "fetching"
    /\ policy' = RefreshedPolicy(policy, outcome)
    /\ policy_task' = LoopAfterTick(outcome.kind # "policy")
    /\ UNCHANGED <<running, pattern_stats, report_task, report_payload, start_pc,
                   stop_pc, stop_payload, call, unacked, ncalls, gen, lru,
                   ana, norm, life, thr, det, mem>>

----------------------------------------------------------------------------
(* AdaptiveSampler._pattern_report_loop *)

\* the sleep elapses; _report_patterns builds the payload and issues the report
\* (an empty table returns at once and the loop sleeps again)
ReportTick ==
    /\ report_task = "sleeping"
    /\ pattern_stats # EmptyMap
    /\ report_payload' = BuildPayload(pattern_stats)
    /\ report_task' = "reporting"
    /\ UNCHANGED <<running, policy, pattern_stats, policy_task, start_pc, stop_pc,
                   stop_payload, call, unacked, ncalls, gen, lru,
                   ana, norm, life, thr, det, mem>>

\* report_patterns answers the loop's call
ReportAnswer(outcome) ==
    /\ report_task = "reporting"
    /\ report_task' = outcome
    /\ UNCHANGED <<running, policy, pattern_stats, policy_task, report_payload,
                   start_pc, stop_pc, stop_payload, call, unacked, ncalls, gen, lru,
                   ana, norm, life, thr, det, mem>>

\* _report_patterns resumes with the answer; the table is cleared on success
ReportDone ==
    /\ report_task \in ReportOutcomes
    /\ pattern_stats' = ReportedStats(pattern_stats, report_task)
    /\ unacked' = IF report_task = "success" THEN Acked(unacked, report_payload)
                  ELSE unacked
    /\ report_payload' = NoPayload
    /\ report_task' = LoopAfterTick(report_task # "success")
    /\ UNCHANGED <<running, policy, policy_task, start_pc, stop_pc, stop_payload,
                   call, ncalls, gen, lru,
                   ana, norm, life, thr, det, mem>>

----------------------------------------------------------------------------
(* AdaptiveSampler.stop *)

\* variant: stop() leaves the loop tasks as they are
NotCancelled(task) == task

\* a cancelled task ends at its pending await (CancelledError is not an Exception)
Cancelled(task) == IF task = "none" THEN "none" ELSE "done"

\* stop() up to the await of the final report: both loops are cancelled and
\* awaited, then _report_patterns builds its payload (or returns on an empty table)
StopBegin ==
    /\ stop_pc = "idle"
    /\ running
    /\ running' = FALSE
    /\ policy_task' = Cancelled(policy_task)
    /\ report_task' = Cancelled(report_task)
    /\ report_payload' = NoPayload
    /\ IF pattern_stats = EmptyMap
       THEN /\ stop_pc' = "idle"
            /\ stop_payload' = NoPayload
       ELSE /\ stop_pc' = "reporting"
            /\ stop_payload' = BuildPayload(pattern_stats)
    /\ UNCHANGED <<policy, pattern_stats, start_pc, call, unacked, ncalls, gen, lru,
                   ana, norm, life, thr, det, mem>>

\* report_patterns answers stop()'s final call
StopReportAnswer(outcome) ==
    /\ stop_pc = "reporting"
    /\ stop_pc' = outcome
    /\ UNCHANGED <<running, policy, pattern_stats, policy_task, report_task,
                   report_payload, start_pc, stop_payload, call, unacked, ncalls, gen, lru,
                   ana, norm, life, thr, det, mem>>

\* the final _report_patterns resumes with the answer; stop() returns
StopReportDone ==
    /\ stop_pc \in ReportOutcomes
    /\ pattern_stats' = ReportedStats(pattern_stats, stop_pc)
    /\ unacked' = IF stop_pc = "success" THEN Acked(unacked, stop_payload)
                  ELSE unacked
    /\ stop_payload' = NoPayload
    /\ stop_pc' = "idle"
    /\ UNCHANGED <<running, policy, policy_task, report_task, report_payload,
                   start_pc, call, ncalls, gen, lru,
                   ana, norm, life, thr, det, mem>>

----------------------------------------------------------------------------
(* AdaptiveSampler.should_sample *)

\* variant: a call made while the refresh loop sleeps fetches the policy itself
LazyRefresh(task) == IF task = "sleeping" THEN "fetching" ELSE task

\* should_sample is a plain method: it awaits nothing and calls nothing on
\* self.client, so it moves no task and issues no request
NoAwait(task) == task

\* variant: fail closed when no policy is loaded
NoPolicyDrop == FALSE

\* `return True, signature` when no policy is loaded
NoPolicyDecision == TRUE

CallDone(c, keep, r, rate, seen) ==
    [c EXCEPT !.pc = "done", !.keep = keep, !.r = r, !.rate = rate, !.seen = seen]

\* entry of should_sample: signature, _track_pattern, the always-sample test
\* and the `if not self.policy` test
SampleBegin(message, severity) ==
    LET severity_upper == Upper(severity)
        signature == compute_signature(message)
        tracked == ~CacheFull(pattern_stats, signature)
        c == [IdleCall EXCEPT !.severity = severity, !.signature = signature]
    IN
    /\ call.pc \in {"idle", "done"}
    /\ ncalls < MaxCalls
    /\ ncalls' = ncalls + 1
    /\ pattern_stats' = _track_pattern(pattern_stats, signature)
    /\ unacked' = IF tracked THEN [unacked EXCEPT ![signature] = @ + 1] ELSE unacked
    /\ report_payload' = IF tracked THEN Aged(report_payload, signature)
                         ELSE report_payload
    /\ stop_payload' = IF tracked THEN Aged(stop_payload, signature) ELSE stop_payload
    /\ call' = IF severity_upper \in ALWAYS_SAMPLE_SEVERITIES
               THEN CallDone(c, TRUE, 0, One, <<>>)
               ELSE IF policy = None
               THEN CallDone(c, NoPolicyDecision, 0, One, <<policy>>)
               ELSE [c EXCEPT !.pc = "pattern", !.seen = <<policy>>]
    /\ policy_task' = NoAwait(policy_task)
    /\ report_task' = NoAwait(report_task)
    /\ UNCHANGED <<running, policy, start_pc, stop_pc, gen, lru,
                   ana, norm, life, thr, det, mem>>

\* `self.policy.get_pattern_rate(signature)` and the decision on a pattern rate
SamplePattern(r) ==
    /\ call.pc = "pattern"
    /\ call' = IF has_pattern_rate(policy, call.signature)
               THEN LET rate == get_pattern_rate(policy, call.signature)
                    IN CallDone(call, r < rate, r, rate, Append(call.seen, policy))
               ELSE [call EXCEPT !.pc = "severity", !.seen = Append(call.seen, policy)]
    /\ UNCHANGED <<running, policy, pattern_stats, policy_task, report_task,
                   report_payload, start_pc, stop_pc, stop_payload, unacked,
                   ncalls, gen, lru,
                   ana, norm, life, thr, det, mem>>

\* `self.policy.get_severity_rate(severity_upper)` and the decision on it
SampleSeverity(r) ==
    /\ call.pc = "severity"
    /\ LET rate == get_severity_rate(policy, Upper(call.severity))
       IN call' = CallDone(call, r < rate, r, rate, Append(call.seen, policy))
    /\ UNCHANGED <<running, policy, pattern_stats, policy_task, report_task,
                   report_payload, start_pc, stop_pc, stop_payload, unacked,
                   ncalls, gen, lru,
                   ana, norm, life, thr, det, mem>>

----------------------------------------------------------------------------
(* PolicyGenerator (src/engine/policy_generator.py) *)

\* rates a provider may put into a PolicyResponse: -0.5, 0.0, 0.5, 1.0, 1.5
ProviderRates == { 0 - (One \div 2), 0, One \div 2, One, One + (One \div 2) }

\* anomaly_boost values a provider may return: 0.0, 1.0, 3.0
ProviderBoosts == { 0, One, 3 * One }

ProviderSeverities == {"INFO", "ERROR", "CRITICAL"}

\* all dicts with keys among `keys` and values among `values`
Dicts(keys, values) == UNION { [d -> values] : d \in SUBSET keys }

\* PolicyResponse objects a provider may return
ProviderResponses ==
    [global_rate : ProviderRates,
     severity_rates : Dicts(ProviderSeverities, ProviderRates),
     pattern_rates : Dicts({SigUser}, ProviderRates),
     anomaly_boost : ProviderBoosts]

\* LLMProvider.generate_policy: a PolicyResponse, or an exception
ProviderOutcomes ==
    { [kind |-> "ok", response |-> resp] : resp \in ProviderResponses }
    \cup { [kind |-> "raise", response |-> None] }

\* `policy.severity_rates[severity] = 1.0`
ForceRate(rates, severity) ==
    [s \in DOMAIN rates \cup {severity} |-> IF s = severity THEN One ELSE rates[s]]

\* the two comparisons that clamp one rate into [0.0, 1.0]
ClampRate(rate) == IF rate < 0 THEN 0 ELSE IF rate > One THEN One ELSE rate

\* variant: only ERROR is forced to 1.0
FixSeverityRatesErrorOnly(rates) == ForceRate(rates, "ERROR")

\* the severity_rates dict after _validate_and_fix_policy: ERROR and CRITICAL
\* are assigned 1.0, no other entry is touched
FixSeverityRates(rates) == ForceRate(ForceRate(rates, "ERROR"), "CRITICAL")

\* PolicyGenerator._validate_and_fix_policy
_validate_and_fix_policy(resp) ==
    [global_rate |-> ClampRate(resp.global_rate),
     severity_rates |-> FixSeverityRates(resp.severity_rates),
     pattern_rates |-> [sig \in DOMAIN resp.pattern_rates |->
                           ClampRate(resp.pattern_rates[sig])],
     anomaly_boost |-> IF resp.anomaly_boost < One THEN One ELSE resp.anomaly_boost]

\* RuleBasedProvider.generate_policy: the fixed conservative policy
\* (DEBUG 0.05 and INFO 0.2 are rounded to the fixed-point grid)
RuleBasedResponse ==
    [global_rate |-> One,
     severity_rates |-> [s \in {"DEBUG", "INFO", "WARNING", "ERROR", "CRITICAL"} |->
                            IF s \in {"ERROR", "CRITICAL"} THEN One
                            ELSE IF s = "WARNING" THEN One \div 2 ELSE 0],
     pattern_rates |-> EmptyMap,
     anomaly_boost |-> 3 * One]

\* variant: a provider failure is answered with the rule-based policy
generate_policy_fallback(outcome) ==
    IF outcome.kind = "raise"
    THEN [status |-> "returned", policy |-> _validate_and_fix_policy(RuleBasedResponse)]
    ELSE [status |-> "returned", policy |-> _validate_and_fix_policy(outcome.response)]

\* PolicyGenerator.generate_policy: what the caller gets for a provider outcome
generate_policy(outcome) ==
    IF outcome.kind = "raise"
    THEN [status |-> "raised", policy |-> None]
    ELSE [status |-> "returned", policy |-> _validate_and_fix_policy(outcome.response)]

GenStart(outcome) ==
    [pc |-> "start", provider |-> outcome, status |-> "pending", policy |-> None]

\* generate_policy builds the prompt and awaits the provider
GenerateCall ==
    /\ gen.pc = "start"
    /\ gen' = [gen EXCEPT !.pc = "awaiting"]
    /\ UNCHANGED <<running, policy, pattern_stats, policy_task, report_task,
                   report_payload, start_pc, stop_pc, stop_payload, call, unacked,
                   ncalls, lru, ana, norm, life, thr, det, mem>>

\* the provider answers; generate_policy validates and returns, or re-raises
GenerateReturn ==
    /\ gen.pc = "awaiting"
    /\ LET res == generate_policy(gen.provider)
       IN gen' = [gen EXCEPT !.pc = "done", !.status = res.status, !.policy = res.policy]
    /\ UNCHANGED <<running, policy, pattern_stats, policy_task, report_task,
                   report_payload, start_pc, stop_pc, stop_payload, call, unacked,
                   ncalls, lru, ana, norm, life, thr, det, mem>>

GenInit ==
    /\ SamplerInit
    /\ det = NotInUse
    /\ mem = NotInUse
    /\ life = NotInUse
    /\ thr = NotInUse
    /\ \E o \in ProviderOutcomes : gen = GenStart(o)
    /\ lru = NotInUse
    /\ ana = NotInUse
    /\ norm = NotInUse

GenNext ==
    \/ GenerateCall
    \/ GenerateReturn

GenSpec == GenInit /\ [][GenNext]_vars

----------------------------------------------------------------------------

Next ==
    \/ StartBegin
    \/ \E o \in FetchOutcomes : StartFetchDone(o)
    \/ PolicyTick
    \/ \E o \in FetchOutcomes : PolicyFetchDone(o)
    \/ ReportTick
    \/ \E o \in ReportOutcomes : ReportAnswer(o)
    \/ ReportDone
    \/ StopBegin
    \/ \E o \in ReportOutcomes : StopReportAnswer(o)
    \/ StopReportDone
    \/ \E m \in Messages, s \in Severities : SampleBegin(m, s)
    \/ \E r \in Draws : SamplePattern(r)
    \/ \E r \in Draws : SampleSeverity(r)

Spec == Init /\ [][Next]_vars

\* The event loop resumes a coroutine whose awaited call has answered; nothing
\* obliges the backend to answer, so the answer steps carry no fairness.
FairSpec ==
    /\ Spec
    /\ WF_vars(ReportDone)
    /\ WF_vars(StopReportDone)

----------------------------------------------------------------------------
(* LRUSignatureCache (sdk/python/lipservice/performance.py) *)

\* capacity of the cache under test: entries and bytes
max_size == 2
max_memory_bytes == 6

\* number of cache operations in one run
MaxOps == 6

\* messages and signatures of different encoded lengths (ASCII only)
LruMessages == {"a", "bb", "ccc"}
LruSignatures == {"s", "tt"}

\* len(text.encode('utf-8')) for ASCII text
EncodedLen(text) == Len(text)

\* the bytes one entry is accounted with
EntryBytes(entry) == EncodedLen(entry.message) + EncodedLen(entry.signature)

\* position of the message in the OrderedDict, 0 when absent
IndexOf(cache, message) ==
    IF \E i \in 1..Len(cache) : cache[i].message = message
    THEN CHOOSE i \in 1..Len(cache) : cache[i].message = message
    ELSE 0

\* OrderedDict.pop(message)
Popped(cache, message) ==
    LET i == IndexOf(cache, message)
    IN IF i = 0 THEN cache
       ELSE SubSeq(cache, 1, i - 1) \o SubSeq(cache, i + 1, Len(cache))

\* variant: a hit leaves the entry where it is
HitInPlace(cache, message) == cache

\* get() on a hit: pop the entry and insert it again at the end
MovedToEnd(cache, message) ==
    LET i == IndexOf(cache, message)
    IN Append(Popped(cache, message), cache[i])

\* variant: only the entry count is bounded
NeedsEvictionBySize(cache, usage) == Len(cache) > max_size

\* the loop condition of _evict_if_needed
NeedsEviction(cache, usage) ==
    Len(cache) > max_size \/ usage > max_memory_bytes

\* _evict_if_needed: popitem(last=False) while the cache is over a bound and
\* not empty; the result carries the messages evicted, in order
RECURSIVE _evict_if_needed(_, _, _)
_evict_if_needed(cache, usage, evicted) ==
    IF NeedsEviction(cache, usage) /\ cache # <<>>
    THEN _evict_if_needed(Tail(cache), usage - EntryBytes(Head(cache)),
                          Append(evicted, Head(cache).message))
    ELSE [cache |-> cache, usage |-> usage, evicted |-> evicted]

\* a constructed, empty cache; `last` and `clock` record when each message was
\* last accessed, `evicted` the messages the latest put evicted
LruNew ==
    [pc |-> "ready", _cache |-> <<>>, _memory_usage |-> 0, _hits |-> 0, _misses |-> 0,
     op |-> "new", arg |-> "", result |-> "", evicted |-> <<>>,
     last |-> [m \in LruMessages |-> 0], clock |-> 0]

\* LRUSignatureCache.get
LruGet(message) ==
    /\ lru.pc = "ready"
    /\ lru.clock < MaxOps
    /\ LET hit == IndexOf(lru._cache, message) # 0
       IN lru' = IF hit
                 THEN [lru EXCEPT !._cache = MovedToEnd(@, message),
                                  !._hits = @ + 1,
                                  !.op = "get", !.arg = message,
                                  !.result = lru._cache[IndexOf(lru._cache, message)].signature,
                                  !.clock = @ + 1,
                                  !.last = [@ EXCEPT ![message] = lru.clock + 1]]
                 ELSE [lru EXCEPT !._misses = @ + 1,
                                  !.op = "get", !.arg = message, !.result = "",
                                  !.clock = @ + 1]
    /\ UNCHANGED <<sampler_vars, gen, ana, norm, life, thr, det, mem>>

\* LRUSignatureCache.put, with the _evict_if_needed call that ends it
LruPut(message, signature) ==
    /\ lru.pc = "ready"
    /\ lru.clock < MaxOps
    /\ LET entry == [message |-> message, signature |-> signature]
           added == Append(Popped(lru._cache, message), entry)
           usage == lru._memory_usage + EntryBytes(entry)
           res == _evict_if_needed(added, usage, <<>>)
       IN lru' = [lru EXCEPT !._cache = res.cache,
                             !._memory_usage = res.usage,
                             !.op = "put", !.arg = message, !.result = "",
                             !.evicted = res.evicted,
                             !.clock = @ + 1,
                             !.last = [@ EXCEPT ![message] = lru.clock + 1]]
    /\ UNCHANGED <<sampler_vars, gen, ana, norm, life, thr, det, mem>>

\* LRUSignatureCache.clear
LruClear ==
    /\ lru.pc = "ready"
    /\ lru.clock < MaxOps
    /\ lru' = [lru EXCEPT !._cache = <<>>, !._memory_usage = 0,
                          !._hits = 0, !._misses = 0,
                          !.op = "clear", !.arg = "", !.result = "",
                          !.evicted = <<>>,
                          !.clock = @ + 1]
    /\ UNCHANGED <<sampler_vars, gen, ana, norm, life, thr, det, mem>>

LruInit ==
    /\ SamplerInit
    /\ det = NotInUse
    /\ mem = NotInUse
    /\ life = NotInUse
    /\ thr = NotInUse
    /\ gen = GenIdle
    /\ lru = LruNew
    /\ ana = NotInUse
    /\ norm = NotInUse

LruNext ==
    \/ \E m \in LruMessages : LruGet(m)
    \/ \E m \in LruMessages, g \in LruSignatures : LruPut(m, g)
    \/ LruClear

LruSpec == LruInit /\ [][LruNext]_vars

----------------------------------------------------------------------------
(* compute_signature (engine/signature.py and sdk/python/lipservice/signature.py):
   messages are sequences of one-character strings *)

LowerSeq == <<"a", "b", "c", "d", "e", "f", "g", "h", "i", "j", "k", "l", "m",
              "n", "o", "p", "q", "r", "s", "t", "u", "v", "w", "x", "y", "z">>
UpperSeq == <<"A", "B", "C", "D", "E", "F", "G", "H", "I", "J", "K", "L", "M",
              "N", "O", "P", "Q", "R", "S", "T", "U", "V", "W", "X", "Y", "Z">>

LowerLetters == { LowerSeq[i] : i \in 1..Len(LowerSeq) }
UpperLetters == { UpperSeq[i] : i \in 1..Len(UpperSeq) }
Letters == LowerLetters \cup UpperLetters

\* \d
DigitChars == {"0", "1", "2", "3", "4", "5", "6", "7", "8", "9"}

\* \w
WordChars == Letters \cup DigitChars \cup {"_"}

\* \s
SpaceChars == {" "}

\* every character of the messages and of the placeholders
AllChars == WordChars \cup SpaceChars \cup {"-", ":", ".", "@", "/", "=", "%", "+", "\\"}

\* [^\s]
NonSpaceChars == AllChars \ SpaceChars

\* [a-f0-9] without and with re.IGNORECASE
HexLower == DigitChars \cup {"a", "b", "c", "d", "e", "f"}
HexAnyCase == HexLower \cup {"A", "B", "C", "D", "E", "F"}

\* str.lower() on one character
LowerChar(c) ==
    IF c \in UpperLetters
    THEN LowerSeq[CHOOSE i \in 1..Len(UpperSeq) : UpperSeq[i] = c]
    ELSE c

\* str.lower()
Lowered(text) == [i \in 1..Len(text) |-> LowerChar(text[i])]

\* str.strip()
RECURSIVE LStripped(_)
LStripped(text) ==
    IF text # <<>> /\ Head(text) \in SpaceChars THEN LStripped(Tail(text)) ELSE text

RECURSIVE RStripped(_)
RStripped(text) ==
    IF text # <<>> /\ text[Len(text)] \in SpaceChars
    THEN RStripped(SubSeq(text, 1, Len(text) - 1))
    ELSE text

Stripped(text) == RStripped(LStripped(text))

\* pattern items: a character class repeated min..max times (max -1: unbounded),
\* or the assertion \b
Rep(set, min, max) == [kind |-> "class", set |-> set, min |-> min, max |-> max]
Lit(c) == Rep({c}, 1, 1)
WordBoundary == [kind |-> "boundary", set |-> {}, min |-> 0, max |-> 0]

\* \b at position i of text (between text[i-1] and text[i])
IsBoundary(text, i) ==
    (i > 1 /\ text[i - 1] \in WordChars) # (i <= Len(text) /\ text[i] \in WordChars)

\* the longest run of characters of the class starting at position i
RECURSIVE RunLen(_, _, _, _)
RunLen(text, i, set, max) ==
    IF max # 0 /\ i <= Len(text) /\ text[i] \in set
    THEN 1 + RunLen(text, i + 1, set, IF max < 0 THEN max ELSE max - 1)
    ELSE 0

\* the regex match of pattern items k.. at position i: the position after the
\* match, 0 when there is none. A class takes as many characters as it can and
\* gives them back one by one while the rest of the pattern fails.
RECURSIVE MatchEnd(_, _, _, _)
RECURSIVE Backtrack(_, _, _, _, _)
MatchEnd(pat, k, text, i) ==
    IF k > Len(pat) THEN i
    ELSE IF pat[k].kind = "boundary"
    THEN IF IsBoundary(text, i) THEN MatchEnd(pat, k + 1, text, i) ELSE 0
    ELSE Backtrack(pat, k, text, i, RunLen(text, i, pat[k].set, pat[k].max))

Backtrack(pat, k, text, i, n) ==
    IF n < pat[k].min THEN 0
    ELSE LET end == MatchEnd(pat, k + 1, text, i + n)
         IN IF end # 0 THEN end ELSE Backtrack(pat, k, text, i, n - 1)

\* re.sub(pattern, replacement, text) from position i on
RECURSIVE SubFrom(_, _, _, _)
SubFrom(pat, repl, text, i) ==
    IF i > Len(text) THEN <<>>
    ELSE LET end == MatchEnd(pat, 1, text, i)
         IN IF end > i
            THEN repl \o SubFrom(pat, repl, text, end)
            ELSE <<text[i]>> \o SubFrom(pat, repl, text, i + 1)

Sub(pat, repl, text) == SubFrom(pat, repl, text, 1)

\* the patterns of the two implementations
UuidPattern(hex) ==
    <<Rep(hex, 8, 8), Lit("-"), Rep(hex, 4, 4), Lit("-"), Rep(hex, 4, 4), Lit("-"),
      Rep(hex, 4, 4), Lit("-"), Rep(hex, 12, 12)>>
DatePattern ==
    <<Rep(DigitChars, 4, 4), Lit("-"), Rep(DigitChars, 2, 2), Lit("-"),
      Rep(DigitChars, 2, 2)>>
TimePattern ==
    <<Rep(DigitChars, 2, 2), Lit(":"), Rep(DigitChars, 2, 2), Lit(":"),
      Rep(DigitChars, 2, 2)>>
TimestampPattern == DatePattern \o <<Rep({"T", " "}, 1, 1)>> \o TimePattern
IpPattern ==
    <<WordBoundary, Rep(DigitChars, 1, 3), Lit("."), Rep(DigitChars, 1, 3), Lit("."),
      Rep(DigitChars, 1, 3), Lit("."), Rep(DigitChars, 1, 3), WordBoundary>>
EmailPattern ==
    <<WordBoundary, Rep(Letters \cup DigitChars \cup {".", "_", "%", "+", "-"}, 1, -1),
      Lit("@"), Rep(Letters \cup DigitChars \cup {".", "-"}, 1, -1), Lit("."),
      Rep(Letters, 2, -1), WordBoundary>>
UrlPattern ==
    <<Lit("h"), Lit("t"), Lit("t"), Lit("p"), Rep({"s"}, 0, 1), Lit(":"), Lit("/"),
      Lit("/"), Rep(NonSpaceChars, 1, -1)>>
WindowsPathPattern == <<Rep(LowerLetters, 1, 1), Lit(":"), Lit("\\"), Rep(NonSpaceChars, 1, -1)>>
UnixPathPattern ==
    <<Lit("/"), Rep(NonSpaceChars, 1, -1), Lit("/"), Rep(NonSpaceChars, 1, -1)>>
Bounded(pat) == <<WordBoundary>> \o pat \o <<WordBoundary>>

\* hashlib.md5(text.encode()).hexdigest(): equal texts, equal digests
md5(text) == [md5 |-> text]

\* the normalisation steps of the SDK's compute_signature, in its order
sdk_normalized(message) ==
    LET t1 == Sub(Bounded(<<Rep(DigitChars, 1, -1)>>), <<"N">>, message)
        t2 == Sub(UuidPattern(HexAnyCase), <<"U", "U", "I", "D">>, t1)
        t3 == Sub(Bounded(<<Rep(HexAnyCase, 32, -1)>>), <<"H", "E", "X", "I", "D">>, t2)
        t4 == Sub(TimestampPattern,
                  <<"T", "I", "M", "E", "S", "T", "A", "M", "P">>, t3)
        t5 == Sub(Bounded(DatePattern), <<"D", "A", "T", "E">>, t4)
        t6 == Sub(Bounded(TimePattern), <<"T", "I", "M", "E">>, t5)
        t7 == Sub(IpPattern, <<"I", "P">>, t6)
        t8 == Sub(EmailPattern, <<"E", "M", "A", "I", "L">>, t7)
        t9 == Sub(UrlPattern, <<"U", "R", "L">>, t8)
        t10 == Sub(<<Rep(SpaceChars, 1, -1)>>, <<" ">>, t9)
    IN Stripped(t10)

\* compute_signature of the SDK
sdk_compute_signature(message) == md5(sdk_normalized(message))

\* the normalisation steps of the engine's compute_signature, in its order
engine_normalized(message) ==
    LET t0 == Stripped(Lowered(message))
        t1 == Sub(<<Rep(DigitChars, 1, -1)>>, <<"N">>, t0)
        t2 == Sub(UuidPattern(HexLower), <<"U", "U", "I", "D">>, t1)
        t3 == Sub(Bounded(<<Rep(HexLower, 32, 32)>>), <<"U", "U", "I", "D">>, t2)
        t4 == Sub(DatePattern, <<"D", "A", "T", "E">>, t3)
        t5 == Sub(TimePattern, <<"T", "I", "M", "E">>, t4)
        t6 == Sub(IpPattern, <<"I", "P">>, t5)
        t7 == Sub(WindowsPathPattern, <<"P", "A", "T", "H">>, t6)
        t8 == Sub(UnixPathPattern, <<"P", "A", "T", "H">>, t7)
    IN Sub(<<Rep(SpaceChars, 1, -1)>>, <<" ">>, t8)

\* compute_signature of the engine
engine_compute_signature(message) ==
    IF message = <<>> THEN md5(<<"e", "m", "p", "t", "y">>)
    ELSE md5(engine_normalized(message))

\* variable parts of log messages, by kind
DigitTokens == {
    <<"1", "2", "3">>,
    <<"4", "5", "6">>,
    <<"7">> }
UuidTokens == {
    <<"a", "1", "b", "2", "c", "3", "d", "4", "-", "1", "2", "3", "4", "-", "5", "6",
      "7", "8", "-", "9", "a", "b", "c", "-", "1", "2", "3", "4", "5", "6", "7", "8",
      "9", "0", "1", "2">>,
    <<"f", "9", "e", "8", "d", "7", "c", "6", "-", "5", "6", "7", "8", "-", "1", "2",
      "3", "4", "-", "5", "6", "7", "8", "-", "9", "8", "7", "6", "5", "4", "3", "2",
      "1", "0", "9", "8">>,
    <<"1", "2", "3", "4", "5", "6", "7", "8", "-", "1", "2", "3", "4", "-", "5", "6",
      "7", "8", "-", "1", "2", "3", "4", "-", "5", "6", "7", "8", "1", "2", "3", "4",
      "5", "6", "7", "8">> }
TimestampTokens == {
    <<"2", "0", "2", "5", "-", "0", "1", "-", "0", "9", "T", "1", "0", ":", "3", "0",
      ":", "0", "0">>,
    <<"2", "0", "2", "5", "-", "0", "1", "-", "1", "0", "T", "1", "5", ":", "4", "5",
      ":", "3", "0">>,
    <<"2", "0", "2", "5", "-", "0", "1", "-", "1", "0", " ", "1", "5", ":", "4", "5",
      ":", "3", "0">> }
DateTokens == {
    <<"2", "0", "2", "5", "-", "0", "1", "-", "0", "9">>,
    <<"2", "0", "2", "5", "-", "0", "1", "-", "1", "0">> }
TimeTokens == {
    <<"1", "0", ":", "3", "0", ":", "4", "5">>,
    <<"1", "5", ":", "2", "0", ":", "1", "0">> }
IpTokens == {
    <<"1", "9", "2", ".", "1", "6", "8", ".", "1", ".", "1">>,
    <<"1", "0", ".", "0", ".", "0", ".", "5">> }
EmailTokens == {
    <<"j", "o", "h", "n", "@", "e", "x", "a", "m", "p", "l", "e", ".", "c", "o", "m">>,
    <<"j", "a", "n", "e", "@", "c", "o", "m", "p", "a", "n", "y", ".", "o", "r", "g">> }
UrlTokens == {
    <<"h", "t", "t", "p", "s", ":", "/", "/", "e", "x", "a", "m", "p", "l", "e", ".",
      "c", "o", "m", "/", "f", "i", "l", "e", ".", "p", "d", "f">>,
    <<"h", "t", "t", "p", ":", "/", "/", "a", "n", "o", "t", "h", "e", "r", ".", "c",
      "o", "m", "/", "d", "o", "c", "u", "m", "e", "n", "t", ".", "d", "o", "c">> }

TokenKinds ==
    [digits |-> DigitTokens, uuid |-> UuidTokens, timestamp |-> TimestampTokens,
     date |-> DateTokens, time |-> TimeTokens, ip |-> IpTokens, email |-> EmailTokens,
     url |-> UrlTokens]

\* the fixed text around the variable part
Templates == {
    [prefix |-> <<"R", "e", "q", "u", "e", "s", "t", " ">>, suffix |-> <<" ", "p", "r", "o", "c", "e", "s", "s", "e", "d">>],
    [prefix |-> <<"i", "d", "=">>, suffix |-> <<>>],
    [prefix |-> <<"j", "o", "b">>, suffix |-> <<" ", "d", "o", "n", "e">>] }

Implementations == {"engine", "sdk"}

\* the function under its name
SignatureOf(impl, message) ==
    IF impl = "engine" THEN engine_compute_signature(message)
    ELSE sdk_compute_signature(message)

\* two messages that differ only in a variable part of one kind
NormInit ==
    /\ SamplerInit
    /\ det = NotInUse
    /\ mem = NotInUse
    /\ life = NotInUse
    /\ thr = NotInUse
    /\ gen = GenIdle
    /\ lru = NotInUse
    /\ ana = NotInUse
    /\ \E impl \in Implementations, kind \in DOMAIN TokenKinds, t \in Templates :
         \E a, b \in TokenKinds[kind] :
            norm = [pc |-> "start", impl |-> impl, kind |-> kind,
                    m1 |-> t.prefix \o a \o t.suffix,
                    m2 |-> t.prefix \o b \o t.suffix,
                    s1 |-> <<>>, s2 |-> <<>>]

\* compute_signature(m1)
NormFirst ==
    /\ norm.pc = "start"
    /\ norm' = [norm EXCEPT !.pc = "first", !.s1 = SignatureOf(norm.impl, norm.m1)]
    /\ UNCHANGED <<sampler_vars, gen, lru, ana, life, thr, det, mem>>

\* compute_signature(m2)
NormSecond ==
    /\ norm.pc = "first"
    /\ norm' = [norm EXCEPT !.pc = "done", !.s2 = SignatureOf(norm.impl, norm.m2)]
    /\ UNCHANGED <<sampler_vars, gen, lru, ana, life, thr, det, mem>>

NormNext ==
    \/ NormFirst
    \/ NormSecond

NormSpec == NormInit /\ [][NormNext]_vars

----------------------------------------------------------------------------
(* LogAnalyzer.analyze (engine/analyzer.py) over PatternAnalyzer
   (engine/pattern_analyzer.py) *)

\* the largest batch analysed
MaxLogs == 10

\* DBSCAN's min_samples: the least number of signatures in a cluster of its own
min_samples == 2

\* the log entries a batch is made of (timestamps and service names left out)
LogKinds ==
    <<[message |-> <<"d", "b">>, severity |-> "ERROR"],
      [message |-> <<"o", "o", "m">>, severity |-> "CRITICAL"],
      [message |-> <<"u", " ", "7">>, severity |-> "INFO"],
      [message |-> <<"u", " ", "8">>, severity |-> "DEBUG"]>>

\* the messages of the log entries
AnaMessages == { LogKinds[k].message : k \in 1..Len(LogKinds) }

\* the messages whose signatures a caller may pass as known
KnownMessages == { LogKinds[k].message : k \in 1..(Len(LogKinds) - 1) }

\* compute_signature of the engine on each of the messages, computed once
SignatureTable(messages) == [m \in messages |-> engine_compute_signature(m)]

\* compute_signature(message), looked up in the table of the call in progress
AnaSignature(message) == ana.signature_of[message]

\* n copies of one log entry
RECURSIVE Repeated(_, _)
Repeated(entry, n) == IF n = 0 THEN <<>> ELSE <<entry>> \o Repeated(entry, n - 1)

\* the batch with counts[k] entries of kind k, kind after kind
RECURSIVE BatchFrom(_, _)
BatchFrom(counts, k) ==
    IF k > Len(LogKinds) THEN <<>>
    ELSE Repeated(LogKinds[k], counts[k]) \o BatchFrom(counts, k + 1)

RECURSIVE SumTo(_, _)
SumTo(counts, k) == IF k = 0 THEN 0 ELSE counts[k] + SumTo(counts, k - 1)

\* the batches analysed: at most MaxLogs entries
Batches ==
    { BatchFrom(counts, 1) :
        counts \in { c \in [1..Len(LogKinds) -> 0..MaxLogs] :
                        SumTo(c, Len(LogKinds)) <= MaxLogs } }

\* _group_by_signature: the signatures of the batch in order of first
\* appearance (the key order of the dict), and the entries of one signature
RECURSIVE SignaturesFrom(_, _, _)
SignaturesFrom(logs, i, seen) ==
    IF i > Len(logs) THEN seen
    ELSE LET sig == AnaSignature(logs[i].message)
         IN SignaturesFrom(logs, i + 1,
                           IF \E j \in 1..Len(seen) : seen[j] = sig THEN seen
                           ELSE Append(seen, sig))

GroupSignatures(logs) == SignaturesFrom(logs, 1, <<>>)

GroupCount(logs, sig) ==
    Cardinality({ i \in 1..Len(logs) : AnaSignature(logs[i].message) = sig })

\* the first entry of a group
GroupFirst(logs, sig) ==
    logs[CHOOSE i \in 1..Len(logs) :
            /\ AnaSignature(logs[i].message) = sig
            /\ \A j \in 1..(i - 1) : AnaSignature(logs[j].message) # sig]

\* the labellings fit_predict may return for a list of signatures: -1 is noise,
\* every other label is carried by at least min_samples signatures
Labellings(signatures) ==
    LET n == Len(signatures)
        ids == 0..((n \div min_samples) - 1)
    IN { l \in [1..n -> {-1} \cup ids] :
            \A c \in ids :
               LET members == { i \in 1..n : l[i] = c }
               IN /\ (members = {} \/ Cardinality(members) >= min_samples)
                  /\ (members # {} => \A d \in ids : d < c => \E i \in 1..n : l[i] = d) }

\* max(signatures, key=...): the first of the signatures with the most entries
Representative(logs, signatures) ==
    LET best == CHOOSE i \in 1..Len(signatures) :
                   /\ \A j \in 1..Len(signatures) :
                        GroupCount(logs, signatures[j]) <= GroupCount(logs, signatures[i])
                   /\ \A j \in 1..(i - 1) :
                        GroupCount(logs, signatures[j]) < GroupCount(logs, signatures[i])
    IN signatures[best]

\* variant: only the representative's entries are counted
RepresentativeCount(logs, signatures, k) ==
    GroupCount(logs, Representative(logs, signatures))

\* len(all_logs) after the first k signatures of the cluster
RECURSIVE TotalCount(_, _, _)
TotalCount(logs, signatures, k) ==
    IF k = 0 THEN 0
    ELSE GroupCount(logs, signatures[k]) + TotalCount(logs, signatures, k - 1)

\* groups[sig]["severity_dist"][severity]: the entries of one signature that
\* carry the severity
GroupSeverityCount(logs, sig, severity) ==
    Cardinality({ i \in 1..Len(logs) :
                    /\ AnaSignature(logs[i].message) = sig
                    /\ logs[i].severity = severity })

\* the keys of groups[sig]["severity_dist"]
GroupSeverities(logs, sig) ==
    { logs[i].severity : i \in { j \in 1..Len(logs) : AnaSignature(logs[j].message) = sig } }

\* severity_dist[severity] after the first k signatures of the cluster
RECURSIVE SeverityCount(_, _, _, _)
SeverityCount(logs, signatures, severity, k) ==
    IF k = 0 THEN 0
    ELSE GroupSeverityCount(logs, signatures[k], severity)
            + SeverityCount(logs, signatures, severity, k - 1)

\* dict(severity_dist) of _build_cluster
SeverityDistribution(logs, signatures) ==
    [severity \in UNION { GroupSeverities(logs, signatures[k]) : k \in 1..Len(signatures) }
        |-> SeverityCount(logs, signatures, severity, Len(signatures))]

\* _build_cluster
_build_cluster(cluster_id, signatures, logs) ==
    LET representative == Representative(logs, signatures)
    IN [cluster_id |-> cluster_id,
        size |-> Len(signatures),
        total_count |-> TotalCount(logs, signatures, Len(signatures)),
        representative_message |-> GroupFirst(logs, representative).message,
        signature |-> representative,
        severity_distribution |-> SeverityDistribution(logs, signatures),
        members |-> { signatures[i] : i \in 1..Len(signatures) }]

\* _create_single_cluster
_create_single_cluster(logs) == <<_build_cluster(0, GroupSignatures(logs), logs)>>

\* the signatures that carry one label, in list order
RECURSIVE WithLabel(_, _, _, _)
WithLabel(signatures, labels, label, i) ==
    IF i > Len(signatures) THEN <<>>
    ELSE (IF labels[i] = label THEN <<signatures[i]>> ELSE <<>>)
         \o WithLabel(signatures, labels, label, i + 1)

\* `for label in set(labels)`: the labels that occur, 0, 1, ... before -1
RECURSIVE LabelsFrom(_, _)
LabelsFrom(labels, c) ==
    IF \E i \in 1..Len(labels) : labels[i] = c
    THEN <<c>> \o LabelsFrom(labels, c + 1)
    ELSE IF \E i \in 1..Len(labels) : labels[i] = -1 THEN <<-1>> ELSE <<>>

\* sorted(clusters, key=total_count, reverse=True): a stable insertion
RECURSIVE Inserted(_, _)
Inserted(sorted, cluster) ==
    IF sorted = <<>> THEN <<cluster>>
    ELSE IF Head(sorted).total_count >= cluster.total_count
    THEN <<Head(sorted)>> \o Inserted(Tail(sorted), cluster)
    ELSE <<cluster>> \o sorted

RECURSIVE SortedClusters(_, _)
SortedClusters(clusters, k) ==
    IF k = 0 THEN <<>>
    ELSE Inserted(SortedClusters(clusters, k - 1), clusters[k])

\* what vectorizing and fit_predict do for a list of signatures: labels, or an
\* exception
ClusteringOutcomes(signatures) ==
    { [kind |-> "labels", labels |-> l] : l \in Labellings(signatures) }
        \cup { [kind |-> "raise", labels |-> <<>>] }

\* _cluster_patterns, given the outcome of the clustering
_cluster_patterns(logs, outcome) ==
    LET signatures == GroupSignatures(logs)
        labels == outcome.labels
    IN IF Len(signatures) < 2 \/ outcome.kind = "raise"
       THEN _create_single_cluster(logs)
       ELSE LET order == LabelsFrom(labels, 0)
                built == [k \in 1..Len(order) |->
                            _build_cluster(order[k],
                                           WithLabel(signatures, labels, order[k], 1),
                                           logs)]
            IN SortedClusters(built, Len(built))

\* PatternAnalyzer.analyze
PatternAnalysis(logs, outcome) ==
    LET clusters == _cluster_patterns(logs, outcome)
    IN [clusters |-> clusters,
        noise_count |-> Cardinality({ k \in 1..Len(clusters) :
                                         clusters[k].cluster_id = -1 }),
        total_unique_patterns |-> Len(GroupSignatures(logs)),
        total_logs |-> Len(logs)]

\* AnomalyDetector.is_new_pattern
is_new_pattern(pattern_signature, known_signatures) ==
    pattern_signature \notin known_signatures

\* a float that is the quotient of two integers
Ratio(num, den) == [num |-> num, den |-> den]

\* _detect_new_patterns: one anomaly per cluster whose signature is new
_detect_new_patterns(clusters, known_signatures) ==
    SelectSeq([k \in 1..Len(clusters) |->
                  [pattern_signature |-> clusters[k].signature,
                   anomaly_type |-> "new_pattern",
                   severity |-> "medium",
                   current_value |-> Ratio(clusters[k].total_count, 1),
                   baseline_value |-> Ratio(0, 1),
                   confidence |-> Ratio(1, 1)]],
              LAMBDA a : is_new_pattern(a.pattern_signature, known_signatures))

\* len([log for log in logs if log.severity in ("ERROR", "CRITICAL")])
ErrorLogCount(logs) ==
    Cardinality({ i \in 1..Len(logs) : logs[i].severity \in {"ERROR", "CRITICAL"} })

\* `error_rate > 0.1` and `error_rate > 0.2` for error_rate = errors / total
\* (the quotients of a batch this small are far from the rounding of 0.1, 0.2)
OverTenth(errors, total) == 10 * errors > total
OverFifth(errors, total) == 5 * errors > total

\* _detect_error_surges
_detect_error_surges(logs) ==
    LET errors == ErrorLogCount(logs)
        total == Len(logs)
    IN IF errors = 0 THEN <<>>
       ELSE IF OverTenth(errors, total)
       THEN <<[pattern_signature |-> "error_rate",
               anomaly_type |-> "error_surge",
               severity |-> IF OverFifth(errors, total) THEN "high" ELSE "medium",
               current_value |-> Ratio(errors, total),
               baseline_value |-> Ratio(1, 20),
               confidence |-> IF 5 * errors < total THEN Ratio(5 * errors, total)
                              ELSE Ratio(1, 1)]>>
       ELSE <<>>

\* _detect_anomalies
_detect_anomalies(pattern_analysis, logs, known_signatures) ==
    _detect_new_patterns(pattern_analysis.clusters, known_signatures)
        \o _detect_error_surges(logs)

\* len([a for a in anomalies if a.severity == "high"])
HighCount(anomalies) ==
    Cardinality({ k \in 1..Len(anomalies) : anomalies[k].severity = "high" })

\* severity_counts.get("ERROR", 0)
PlainErrorCount(logs) ==
    Cardinality({ i \in 1..Len(logs) : logs[i].severity = "ERROR" })

\* _generate_summary (severity_distribution and the messages of top_patterns
\* left out)
_generate_summary(pattern_analysis, anomalies, logs) ==
    [total_logs |-> Len(logs),
     unique_patterns |-> pattern_analysis.total_unique_patterns,
     clusters_found |-> Len(pattern_analysis.clusters),
     anomalies_detected |-> Len(anomalies),
     high_severity_anomalies |-> HighCount(anomalies),
     error_rate |-> Ratio(PlainErrorCount(logs), Len(logs)),
     top_patterns |-> [k \in 1..(IF Len(pattern_analysis.clusters) < 5
                                 THEN Len(pattern_analysis.clusters) ELSE 5) |->
                          [count |-> pattern_analysis.clusters[k].total_count,
                           signature |-> pattern_analysis.clusters[k].signature]]]

\* the result of analyze on an empty batch
EmptyResult ==
    [pattern_analysis |-> [clusters |-> <<>>, noise_count |-> 0,
                           total_unique_patterns |-> 0, total_logs |-> 0],
     anomalies |-> <<>>,
     summary |-> [total_logs |-> 0, unique_patterns |-> 0, clusters_found |-> 0,
                  anomalies_detected |-> 0, high_severity_anomalies |-> 0,
                  error_rate |-> Ratio(0, 1), top_patterns |-> <<>>]]

\* LogAnalyzer.analyze on a non-empty batch
analyze(logs, known_signatures, outcome) ==
    LET pattern_analysis == PatternAnalysis(logs, outcome)
        anomalies == _detect_anomalies(pattern_analysis, logs, known_signatures)
    IN [pattern_analysis |-> pattern_analysis,
        anomalies |-> anomalies,
        summary |-> _generate_summary(pattern_analysis, anomalies, logs)]

\* a caller holds a batch and the messages it has seen before
AnaInit ==
    /\ SamplerInit
    /\ det = NotInUse
    /\ mem = NotInUse
    /\ life = NotInUse
    /\ thr = NotInUse
    /\ gen = GenIdle
    /\ lru = NotInUse
    /\ norm = NotInUse
    /\ \E logs \in Batches, known \in SUBSET KnownMessages :
          ana = [pc |-> "start", logs |-> logs, known_messages |-> known,
                 signature_of |-> <<>>, known_signatures |-> {},
                 clustering |-> [kind |-> "none", labels |-> <<>>],
                 result |-> EmptyResult]

\* the caller computes the known signatures with compute_signature and calls
\* analyze(logs, known_signatures)
AnalyzeCall ==
    /\ ana.pc = "start"
    /\ LET table == SignatureTable(AnaMessages)
       IN ana' = [ana EXCEPT !.pc = "called",
                             !.signature_of = table,
                             !.known_signatures = { table[m] : m \in ana.known_messages }]
    /\ UNCHANGED <<sampler_vars, gen, lru, norm, life, thr, det, mem>>

\* `if not logs`: the empty result
AnalyzeEmpty ==
    /\ ana.pc = "called"
    /\ ana.logs = <<>>
    /\ ana' = [ana EXCEPT !.pc = "done"]
    /\ UNCHANGED <<sampler_vars, gen, lru, norm, life, thr, det, mem>>

\* analyze on a non-empty batch, given the outcome of the clustering
Analyze(outcome) ==
    /\ ana.pc = "called"
    /\ ana.logs # <<>>
    /\ ana' = [ana EXCEPT !.pc = "done", !.clustering = outcome,
                          !.result = analyze(ana.logs, ana.known_signatures, outcome)]
    /\ UNCHANGED <<sampler_vars, gen, lru, norm, life, thr, det, mem>>

AnaNext ==
    \/ AnalyzeCall
    \/ AnalyzeEmpty
    \/ \E outcome \in (IF ana.pc = "called"
                        THEN ClusteringOutcomes(GroupSignatures(ana.logs))
                        ELSE {}) : Analyze(outcome)

AnaSpec == AnaInit /\ [][AnaNext]_vars

----------------------------------------------------------------------------
(* Properties *)

NonePolicy(p) == p = None

\* the rate should_sample is to apply under one policy p
ExpectedRate(p, signature, severity_upper) ==
    IF signature \in DOMAIN p.pattern_rates THEN p.pattern_rates[signature]
    ELSE IF severity_upper \in DOMAIN p.severity_rates THEN p.severity_rates[severity_upper]
    ELSE p.global_rate

\* a finished should_sample call whose severity is not one of the always-kept ones
SampledCall ==
    /\ call.pc = "done"
    /\ Upper(call.severity) \notin {"ERROR", "CRITICAL", "FATAL"}

\* every policy read of the call returned the same policy object
OnePolicy(c) == \A i, j \in DOMAIN c.seen : c.seen[i] = c.seen[j]

\* C1: a should_sample call whose severity is ERROR, CRITICAL or FATAL in any
\* letter case returns keep = true, whatever the sampler state and the policy.
C1_ErrorsAlwaysKept ==
    (call.pc = "done" /\ call.severity \in {"error", "CRITICAL", "Fatal"}) => call.keep

\* C1 witness: an "error" call for a signature with pattern rate 0.0, kept while
\* the loaded policy also maps ERROR to 0.0
C1_Witness ==
    /\ call.pc = "done"
    /\ call.severity = "error"
    /\ call.keep
    /\ ~NonePolicy(policy)
    /\ call.signature \in DOMAIN policy.pattern_rates
    /\ policy.pattern_rates[call.signature] = 0
    /\ "ERROR" \in DOMAIN policy.severity_rates
    /\ policy.severity_rates["ERROR"] = 0

\* C2: a policy returned by generate_policy maps ERROR and CRITICAL to 1.0,
\* whatever the provider returned for them.
C2_ErrorRatesForced ==
    (gen.pc = "done" /\ gen.status = "returned") =>
        /\ {"ERROR", "CRITICAL"} \subseteq DOMAIN gen.policy.severity_rates
        /\ gen.policy.severity_rates["ERROR"] = One
        /\ gen.policy.severity_rates["CRITICAL"] = One

\* C2 witness: a policy was returned although the provider left out ERROR and
\* gave CRITICAL a rate below 1.0
C2_Witness ==
    /\ gen.pc = "done"
    /\ gen.status = "returned"
    /\ "ERROR" \notin DOMAIN gen.provider.response.severity_rates
    /\ "CRITICAL" \in DOMAIN gen.provider.response.severity_rates
    /\ gen.provider.response.severity_rates["CRITICAL"] < One

\* C3: the table never holds more than max_pattern_cache_size signatures; at
\* capacity a call with a new signature leaves the table as it is, and a call
\* with a tracked signature adds one to that entry's count.
C3_CacheBounded ==
    /\ [](Cardinality(DOMAIN pattern_stats) <= max_pattern_cache_size)
    /\ [][ncalls' = ncalls + 1 =>
            /\ (/\ Cardinality(DOMAIN pattern_stats) >= max_pattern_cache_size
                /\ call'.signature \notin DOMAIN pattern_stats)
               => pattern_stats' = pattern_stats
            /\ call'.signature \in DOMAIN pattern_stats
               => /\ DOMAIN pattern_stats' = DOMAIN pattern_stats
                  /\ pattern_stats'[call'.signature].count
                        = pattern_stats[call'.signature].count + 1
          ]_vars

\* C3 witness: the table is at capacity and the last call's signature, being
\* new, was not tracked
C3_Witness ==
    /\ call.pc # "idle"
    /\ Cardinality(DOMAIN pattern_stats) = max_pattern_cache_size
    /\ call.signature \notin DOMAIN pattern_stats

\* C4: every observation counted into the table is still in the table or was
\* contained in a successfully reported payload.
C4_AtLeastOnce ==
    \A s \in Signatures : unacked[s] <= CountOf(pattern_stats, s)

\* C5: a report that fails or is cancelled leaves the table unchanged, every
\* report attempt sends all entries the table holds when it starts, and the
\* table is emptied only by a report that succeeded.
C5_FailedReportKeepsStats ==
       [][/\ (report_task \in {"failure", "raise"} /\ report_task' # report_task)
             => pattern_stats' = pattern_stats
          /\ (stop_pc \in {"failure", "raise"} /\ stop_pc' # stop_pc)
             => pattern_stats' = pattern_stats
          /\ (report_task \in {"reporting", "success", "failure", "raise"}
                /\ running /\ ~running')
             => pattern_stats' = pattern_stats
          /\ (pattern_stats # EmptyMap /\ pattern_stats' = EmptyMap)
             => (report_task = "success" \/ stop_pc = "success")
          /\ (report_task # "reporting" /\ report_task' = "reporting")
             => \A s \in DOMAIN pattern_stats :
                   /\ s \in DOMAIN report_payload'.count
                   /\ report_payload'.count[s] = pattern_stats[s].count
          /\ (stop_pc # "reporting" /\ stop_pc' = "reporting")
             => \A s \in DOMAIN pattern_stats :
                   /\ s \in DOMAIN stop_payload'.count
                   /\ stop_payload'.count[s] = pattern_stats[s].count
         ]_vars

\* C5 witness: report_patterns has answered False to the loop's report while the
\* table holds the reported entry and one counted after the payload was built
C5_Witness ==
    /\ report_task = "failure"
    /\ \E s \in DOMAIN report_payload.count :
          /\ report_payload.since[s] > 0
          /\ CountOf(pattern_stats, s) = report_payload.count[s] + report_payload.since[s]

\* C6: with no policy held, start() completes whatever the initial fetch
\* answered and leaves the sampler Running with both loops started, and
\* should_sample returns keep = true for every message and severity.
C6_FailOpen ==
    /\ []((NonePolicy(policy) /\ call.pc = "done") => call.keep)
    /\ [][(start_pc = "fetching" /\ start_pc' = "idle" /\ NonePolicy(policy'))
            => /\ running' = running
               /\ running => (policy_task' = "sleeping" /\ report_task' = "sleeping")
         ]_vars

\* C6 witness: start() has returned after a fetch without a policy, the sampler
\* is Running and an "info" call was kept
C6_Witness ==
    /\ NonePolicy(policy)
    /\ running
    /\ start_pc = "idle"
    /\ policy_task = "sleeping"
    /\ report_task = "sleeping"
    /\ SampledCall
    /\ call.keep

\* C7: under one loaded policy a call with a severity outside ERROR, CRITICAL,
\* FATAL decides keep = (r < rate), rate being the pattern rate if the policy
\* has one for the signature, else the mapped severity rate, else global_rate.
C7_RatePrecedence ==
    (SampledCall /\ call.seen # <<>> /\ ~NonePolicy(call.seen[1]) /\ OnePolicy(call)) =>
        LET p == call.seen[1]
            rate == ExpectedRate(p, call.signature, Upper(call.severity))
        IN /\ call.rate = rate
           /\ call.keep = (call.r < rate)
           /\ (call.signature \in DOMAIN p.pattern_rates
                 /\ p.pattern_rates[call.signature] = 0) => ~call.keep
           /\ (call.signature \notin DOMAIN p.pattern_rates
                 /\ Upper(call.severity) \in DOMAIN p.severity_rates
                 /\ p.severity_rates[Upper(call.severity)] = 0) => ~call.keep

\* C7 witness: an "info" call dropped by pattern rate 0.0 under a policy whose
\* INFO rate is 1.0
C7_Witness ==
    /\ SampledCall
    /\ call.seen # <<>>
    /\ ~NonePolicy(call.seen[1])
    /\ OnePolicy(call)
    /\ call.severity = "info"
    /\ call.signature \in DOMAIN call.seen[1].pattern_rates
    /\ call.seen[1].pattern_rates[call.signature] = 0
    /\ call.seen[1].severity_rates["INFO"] = One
    /\ ~call.keep

\* C8: every rate of a returned policy lies in [0, 1]: global_rate, every
\* severity rate and every pattern rate.
C8_AllRatesClamped ==
    (gen.pc = "done" /\ gen.status = "returned") =>
        /\ gen.policy.global_rate >= 0 /\ gen.policy.global_rate <= One
        /\ \A s \in DOMAIN gen.policy.severity_rates :
              gen.policy.severity_rates[s] >= 0 /\ gen.policy.severity_rates[s] <= One
        /\ \A s \in DOMAIN gen.policy.pattern_rates :
              gen.policy.pattern_rates[s] >= 0 /\ gen.policy.pattern_rates[s] <= One

\* C9: when the provider raises, generate_policy raises to its caller and
\* returns no policy.
C9_ProviderFailurePropagates ==
    (gen.pc = "done" /\ gen.provider.kind = "raise") =>
        (gen.status = "raised" /\ NonePolicy(gen.policy))

\* C9 witness: a generate_policy call has ended after its provider raised
C9_Witness ==
    /\ gen.pc = "done"
    /\ gen.provider.kind = "raise"
    /\ gen.status = "raised"

\* C10: all policy reads of one should_sample call see the same policy object.
C10_OnePolicyPerDecision ==
    call.pc = "done" => OnePolicy(call)

\* C11: a stop() that awaits its final report returns, whether or not the
\* backend ever answers that report.
C11_StopReturns ==
    (stop_pc = "reporting") ~> (stop_pc = "idle")

\* the version a policy reference carries (0 when no policy is held)
VersionOf(p) == IF NonePolicy(p) THEN 0 ELSE p.version

Ended == {"none", "done"}

C13_FailedTickKeepsLoop ==
    [][/\ (policy_task = "fetching" /\ policy_task' # "fetching" /\ running') =>
            (policy_task' = "sleeping" /\ call' = call)
       /\ (report_task \in {"failure", "raise"} /\ report_task' # report_task
              /\ running') =>
            (report_task' = "sleeping" /\ call' = call)]_vars

\* C13 witness: the report loop of a running sampler holds a raised exception
\* while the refresh loop sleeps
C13_Witness ==
    /\ running
    /\ report_task = "raise"
    /\ policy_task = "sleeping"

\* C14: a step of should_sample issues no request: it moves neither loop,
\* neither start() nor stop(), and does not replace the policy.
C14_SampleIssuesNoRequest ==
    [][(call' # call) =>
          /\ policy_task' = policy_task
          /\ report_task' = report_task
          /\ start_pc' = start_pc
          /\ stop_pc' = stop_pc
          /\ policy' = policy]_vars

\* C14 witness: a call decided without a policy while the refresh loop sleeps
C14_Witness ==
    /\ call.pc = "done"
    /\ call.severity = "info"
    /\ call.seen = <<None>>
    /\ running
    /\ policy = None
    /\ policy_task = "sleeping"

\* C19: the version of the held policy never decreases.
C19_VersionsMonotonic ==
    [][VersionOf(policy') >= VersionOf(policy)]_vars

\* the messages held by the cache
CachedMessages == { lru._cache[i].message : i \in 1..Len(lru._cache) }

\* the messages evicted by the latest put
EvictedMessages == { lru.evicted[i] : i \in 1..Len(lru.evicted) }

\* C15: whenever a put has returned, the cache holds at most max_size entries
\* and its tracked memory usage is at most max_memory_bytes.
C15_BoundsAfterPut ==
    (lru.pc = "ready" /\ lru.op = "put") =>
        /\ Len(lru._cache) <= max_size
        /\ lru._memory_usage <= max_memory_bytes

\* C15 witness: a put of a message already cached (an earlier put of it is
\* still accounted) has evicted an entry
C15_Witness ==
    /\ lru.pc = "ready"
    /\ lru.op = "put"
    /\ lru.evicted # <<>>
    /\ lru._cache # <<>>
    /\ lru._memory_usage >
         EncodedLen(lru._cache[1].message) + EncodedLen(lru._cache[1].signature)
    /\ Len(lru._cache) = 1

\* C16: the cache is ordered by last access (a get hit or a put makes its
\* entry the newest), and every entry a put evicted was last accessed before
\* every entry the put kept.
C16_EvictsLeastRecentlyUsed ==
    lru.pc = "ready" =>
        /\ \A i, j \in 1..Len(lru._cache) :
              i < j => lru.last[lru._cache[i].message] < lru.last[lru._cache[j].message]
        /\ (lru.op = "get" /\ lru.result # "") =>
              lru._cache[Len(lru._cache)].message = lru.arg
        /\ lru.op = "put" =>
              \A e \in EvictedMessages, m \in CachedMessages :
                  lru.last[e] < lru.last[m]

\* C16 witness: a put has evicted an entry and kept one that a get hit had
\* made newer than the evicted one, which was put after it
C16_Witness ==
    /\ lru.pc = "ready"
    /\ lru.op = "put"
    /\ Len(lru.evicted) = 1
    /\ Len(lru._cache) = 2
    /\ lru._hits > 0
    /\ lru._cache[1].message # lru.arg
    /\ lru.last[lru._cache[1].message] > lru.last[lru.evicted[1]]
    /\ lru._memory_usage <= max_memory_bytes

\* C20: two messages that differ only in an embedded number, UUID, timestamp,
\* date, time, IPv4 address, email address or URL get the same signature, from
\* the engine's compute_signature and from the SDK's.
C20_VariablePartsNormalized ==
    norm.pc = "done" => norm.s1 = norm.s2

\* the anomalies of one type in the result of the analysis
AnomaliesOfType(type) ==
    { ana.result.anomalies[k] : k \in { i \in 1..Len(ana.result.anomalies) :
                                        ana.result.anomalies[i].anomaly_type = type } }

ErrorCount == Cardinality({ i \in 1..Len(ana.logs) :
                              ana.logs[i].severity \in {"ERROR", "CRITICAL"} })

\* C17: a batch whose ERROR/CRITICAL share is at least 0.1 gets an error_surge
\* anomaly of severity medium or high, a batch below 0.1 gets none.
C17_ErrorSurgeFromTenth ==
    (ana.pc = "done" /\ ana.logs # <<>>) =>
        IF 10 * ErrorCount >= Len(ana.logs)
        THEN \E a \in AnomaliesOfType("error_surge") : a.severity \in {"medium", "high"}
        ELSE AnomaliesOfType("error_surge") = {}

\* C18: every signature of the batch that is not a known one has a new_pattern
\* anomaly of severity medium and confidence 1.0 in the result.
C18_EveryNewSignatureFlagged ==
    ana.pc = "done" =>
        \A i \in 1..Len(ana.logs) :
            LET sig == engine_compute_signature(ana.logs[i].message)
            IN sig \notin ana.known_signatures =>
                 \E a \in AnomaliesOfType("new_pattern") :
                    /\ a.pattern_signature = sig
                    /\ a.severity = "medium"
                    /\ a.confidence = [num |-> 1, den |-> 1]

\* the bytes of the entries that are in the cache
RECURSIVE BytesOf(_)
BytesOf(cache) ==
    IF cache = <<>> THEN 0
    ELSE Len(Head(cache).message) + Len(Head(cache).signature) + BytesOf(Tail(cache))

\* C29: after any sequence of put, get and clear, _memory_usage is the sum of
\* the message and signature byte lengths of the entries in the cache.
C29_MemoryUsageExact ==
    lru.pc = "ready" => lru._memory_usage = BytesOf(lru._cache)

----------------------------------------------------------------------------
(* One message through both ends of the loop: the SDK sampler signs it in
   should_sample, the engine signs it when the reported logs are analysed *)

\* the messages a call site logs: each template with each variable part
LoopMessages ==
    { t.prefix \o a \o t.suffix :
        t \in Templates, a \in UNION { TokenKinds[k] : k \in DOMAIN TokenKinds } }

Unsigned == [set |-> FALSE, value |-> <<>>]

LoopInit ==
    /\ SamplerInit
    /\ det = NotInUse
    /\ mem = NotInUse
    /\ life = NotInUse
    /\ thr = NotInUse
    /\ gen = GenIdle
    /\ lru = NotInUse
    /\ ana = NotInUse
    /\ \E message \in LoopMessages :
         norm = [pc |-> "loop", message |-> message, sdk |-> Unsigned, engine |-> Unsigned]

\* should_sample: signature = compute_signature(message), the SDK's function
SdkSigns ==
    /\ norm.pc = "loop"
    /\ ~norm.sdk.set
    /\ norm' = [norm EXCEPT !.sdk = [set |-> TRUE,
                                     value |-> sdk_compute_signature(norm.message)]]
    /\ UNCHANGED <<sampler_vars, gen, lru, ana, life, thr, det, mem>>

\* _group_by_signature: sig = compute_signature(log.message), the engine's function
EngineSigns ==
    /\ norm.pc = "loop"
    /\ ~norm.engine.set
    /\ norm' = [norm EXCEPT !.engine = [set |-> TRUE,
                                        value |-> engine_compute_signature(norm.message)]]
    /\ UNCHANGED <<sampler_vars, gen, lru, ana, life, thr, det, mem>>

LoopSigNext ==
    \/ SdkSigns
    \/ EngineSigns

LoopSigSpec == LoopInit /\ [][LoopSigNext]_vars

\* C28: the signature the SDK computes for a message in should_sample equals
\* the signature the engine computes for the same message.
C28_SignaturesAgree ==
    (norm.pc = "loop" /\ norm.sdk.set /\ norm.engine.set) =>
        norm.sdk.value = norm.engine.value

----------------------------------------------------------------------------
(* Claims about the clusters of an analysis *)

\* the sum of the values of a dict
RECURSIVE SumValues(_)
SumValues(f) ==
    IF DOMAIN f = {} THEN 0
    ELSE LET key == CHOOSE x \in DOMAIN f : TRUE
         IN f[key] + SumValues([x \in DOMAIN f \ {key} |-> f[x]])

\* the total_count fields of the first k clusters, summed
RECURSIVE SumTotalCounts(_, _)
SumTotalCounts(clusters, k) ==
    IF k = 0 THEN 0 ELSE clusters[k].total_count + SumTotalCounts(clusters, k - 1)

\* C23: each cluster's total_count is the sum of its severity_distribution,
\* every log of the batch belongs to exactly one cluster, and the clusters'
\* counts add up to the number of logs analysed.
C23_ClusterCountsAddUp ==
    ana.pc = "done" =>
        LET clusters == ana.result.pattern_analysis.clusters
        IN /\ \A k \in 1..Len(clusters) :
                clusters[k].total_count = SumValues(clusters[k].severity_distribution)
           /\ \A i \in 1..Len(ana.logs) :
                Cardinality({ k \in 1..Len(clusters) :
                    ana.signature_of[ana.logs[i].message] \in clusters[k].members }) = 1
           /\ SumTotalCounts(clusters, Len(clusters)) = Len(ana.logs)

\* an analysis with a noise cluster beside a labelled one, whose labelled
\* cluster joins signatures of different severities
C23_Witness ==
    /\ ana.pc = "done"
    /\ ana.clustering.kind = "labels"
    /\ LET clusters == ana.result.pattern_analysis.clusters
       IN /\ \E k \in 1..Len(clusters) : clusters[k].cluster_id = -1
          /\ \E k \in 1..Len(clusters) :
                /\ clusters[k].cluster_id = 0
                /\ clusters[k].size >= 2
                /\ Cardinality(DOMAIN clusters[k].severity_distribution) >= 2
                /\ clusters[k].total_count >= 3

----------------------------------------------------------------------------
(* should_sample called from several threads on one sampler with no lock
   (sdk/python/lipservice/sampler.py, _track_pattern).  The table maps a
   signature to a stats object; a thread may be preempted between the steps
   below: after the capacity test, inside the defaultdict's factory call, and
   between the read and the write of `stats["count"] += 1`. *)

\* threads that log through the same sampler
NumThreads == 2

ThreadIds == 1..NumThreads

IdleThread == [pc |-> "idle", signature |-> <<>>, tracked |-> FALSE, stats |-> 0, read |-> 0]

\* a constructed sampler: an empty defaultdict, no stats object yet
ThreadInit ==
    /\ SamplerInit
    /\ det = NotInUse
    /\ mem = NotInUse
    /\ gen = GenIdle
    /\ lru = NotInUse
    /\ ana = NotInUse
    /\ norm = NotInUse
    /\ life = NotInUse
    /\ thr = [pc |-> "ready", table |-> EmptyMap, objects |-> <<>>,
              threads |-> [t \in ThreadIds |-> IdleThread]]

\* should_sample up to the capacity test at the head of _track_pattern
ThreadCall(t, message) ==
    LET signature == compute_signature(message)
        full == /\ signature \notin DOMAIN thr.table
                /\ Cardinality(DOMAIN thr.table) >= max_pattern_cache_size
    IN /\ thr.pc = "ready"
       /\ thr.threads[t].pc = "idle"
       /\ thr' = [thr EXCEPT !.threads[t] =
                     IF full
                     THEN [IdleThread EXCEPT !.pc = "done", !.signature = signature]
                     ELSE [IdleThread EXCEPT !.pc = "lookup", !.signature = signature]]
       /\ UNCHANGED <<sampler_vars, gen, lru, ana, norm, life, det, mem>>

\* `stats = self.pattern_stats[signature]`: a hit returns the stats object, a
\* miss makes the defaultdict call _default_pattern_stats
ThreadLookup(t) ==
    LET me == thr.threads[t]
    IN /\ thr.pc = "ready"
       /\ me.pc = "lookup"
       /\ thr' = [thr EXCEPT !.threads[t] =
                     IF me.signature \in DOMAIN thr.table
                     THEN [me EXCEPT !.pc = "have", !.stats = thr.table[me.signature]]
                     ELSE [me EXCEPT !.pc = "factory"]]
       /\ UNCHANGED <<sampler_vars, gen, lru, ana, norm, life, det, mem>>

\* _default_pattern_stats returns; the defaultdict stores the new object under
\* the signature, whatever is stored there by now, and returns it
ThreadInsert(t) ==
    LET me == thr.threads[t]
        id == Len(thr.objects) + 1
    IN /\ thr.pc = "ready"
       /\ me.pc = "factory"
       /\ thr' = [thr EXCEPT
                     !.objects = Append(@, _default_pattern_stats.count),
                     !.table = [s \in DOMAIN thr.table \cup {me.signature} |->
                                   IF s = me.signature THEN id ELSE thr.table[s]],
                     !.threads[t] = [me EXCEPT !.pc = "have", !.stats = id]]
       /\ UNCHANGED <<sampler_vars, gen, lru, ana, norm, life, det, mem>>

\* `stats["count"] += 1`: the read
ThreadRead(t) ==
    LET me == thr.threads[t]
    IN /\ thr.pc = "ready"
       /\ me.pc = "have"
       /\ thr' = [thr EXCEPT !.threads[t] =
                     [me EXCEPT !.pc = "read", !.read = thr.objects[me.stats]]]
       /\ UNCHANGED <<sampler_vars, gen, lru, ana, norm, life, det, mem>>

\* `stats["count"] += 1`: the write; the rest of _track_pattern leaves the
\* count alone and should_sample returns
ThreadWrite(t) ==
    LET me == thr.threads[t]
    IN /\ thr.pc = "ready"
       /\ me.pc = "read"
       /\ thr' = [thr EXCEPT !.objects[me.stats] = me.read + 1,
                             !.threads[t] = [me EXCEPT !.pc = "done", !.tracked = TRUE]]
       /\ UNCHANGED <<sampler_vars, gen, lru, ana, norm, life, det, mem>>

ThreadNext ==
    \/ \E t \in ThreadIds, message \in Messages : ThreadCall(t, message)
    \/ \E t \in ThreadIds : ThreadLookup(t)
    \/ \E t \in ThreadIds : ThreadInsert(t)
    \/ \E t \in ThreadIds : ThreadRead(t)
    \/ \E t \in ThreadIds : ThreadWrite(t)

ThreadSpec == ThreadInit /\ [][ThreadNext]_vars

\* C27: once every call has returned, the count of each tracked signature is
\* the number of should_sample calls that were made for it and passed the
\* capacity test.
C27_NoLostIncrement ==
    (thr.pc = "ready" /\ \A t \in DOMAIN thr.threads : thr.threads[t].pc \in {"idle", "done"}) =>
        \A s \in DOMAIN thr.table :
            thr.objects[thr.table[s]] =
                Cardinality({ t \in DOMAIN thr.threads :
                                /\ thr.threads[t].pc = "done"
                                /\ thr.threads[t].tracked
                                /\ thr.threads[t].signature = s })

----------------------------------------------------------------------------
(* The sampler's coroutines (sdk/python/lipservice/sampler.py, start, stop and
   the two loops) with the callers that start it (handler.py, config.py).
   Every start() and stop() call is a coroutine of its own; a call runs from
   one await to the next in one step.  Loop tasks are created in pairs; the
   sampler's _policy_task and _report_task name the pair created last. *)

\* start() and stop() calls made on one sampler
MaxLifeCalls == 3

\* the signature of the one pattern the call sites log
LifeSignature == SigDb

\* no answer from the policy store yet
NoAnswer == [kind |-> "pending", policy |-> None]

\* a constructed sampler; the application's event loop is not running yet
LifeNew ==
    [pc |-> "ready", app_loop |-> FALSE, _running |-> FALSE, policy |-> None,
     pattern_stats |-> {}, _policy_task |-> 0, _report_task |-> 0,
     pairs |-> <<>>, starts |-> <<>>, stops |-> <<>>, ncalls |-> 0]

LifeInit ==
    /\ SamplerInit
    /\ det = NotInUse
    /\ mem = NotInUse
    /\ gen = GenIdle
    /\ lru = NotInUse
    /\ ana = NotInUse
    /\ norm = NotInUse
    /\ thr = NotInUse
    /\ life = LifeNew

\* a call that has returned leaves the list of calls in flight
Removed(calls, i) == SubSeq(calls, 1, i - 1) \o SubSeq(calls, i + 1, Len(calls))

\* `while self._running` at the head of a loop, in the state l
LoopHead(l) == IF l._running THEN "sleeping" ELSE "done"

\* asyncio.run blocks its thread until the call has returned: without a
\* running event loop there is one call at a time
MayCall ==
    /\ life.pc = "ready"
    /\ life.ncalls < MaxLifeCalls
    /\ (~life.app_loop => (life.starts = <<>> /\ life.stops = <<>>))

\* the application starts its event loop (asyncio.get_running_loop succeeds
\* from now on)
AppLoopStarts ==
    /\ life.pc = "ready"
    /\ ~life.app_loop
    /\ life.starts = <<>>
    /\ life.stops = <<>>
    /\ life' = [life EXCEPT !.app_loop = TRUE]
    /\ UNCHANGED <<sampler_vars, gen, lru, ana, norm, thr, det, mem>>

\* start() up to the await inside the initial _refresh_policy; the caller runs
\* it as a task of the running loop, or with asyncio.run when there is none
LifeStart ==
    /\ MayCall
    /\ life' = IF life._running
               THEN [life EXCEPT !.ncalls = @ + 1]
               ELSE [life EXCEPT !.ncalls = @ + 1,
                                 !._running = TRUE,
                                 !.starts = Append(@,
                                     [mode |-> IF life.app_loop THEN "task" ELSE "run",
                                      pc |-> "fetching", answer |-> NoAnswer])]
    /\ UNCHANGED <<sampler_vars, gen, lru, ana, norm, thr, det, mem>>

\* get_active_policy answers the initial fetch of a start() call
LifeFetchAnswer(i, outcome) ==
    /\ life.pc = "ready"
    /\ i \in 1..Len(life.starts)
    /\ life.starts[i].pc = "fetching"
    /\ life' = [life EXCEPT !.starts[i] = [@ EXCEPT !.pc = "answered", !.answer = outcome]]
    /\ UNCHANGED <<sampler_vars, gen, lru, ana, norm, thr, det, mem>>

\* the loop tasks a start() call leaves behind: tasks of the running loop, or,
\* under asyncio.run, tasks that reached their sleep and were cancelled when
\* asyncio.run closed its loop
CreatedPair(mode) ==
    IF mode = "task"
    THEN [policy |-> "pending", report |-> "pending", answer |-> NoAnswer]
    ELSE [policy |-> "done", report |-> "done", answer |-> NoAnswer]

\* start() resumes: _refresh_policy assigns the policy, both tasks are created
\* and start() returns
LifeStartResume(i) ==
    /\ life.pc = "ready"
    /\ i \in 1..Len(life.starts)
    /\ life.starts[i].pc = "answered"
    /\ life' = [life EXCEPT
                  !.policy = RefreshedPolicy(@, life.starts[i].answer),
                  !.pairs = Append(@, CreatedPair(life.starts[i].mode)),
                  !._policy_task = Len(life.pairs) + 1,
                  !._report_task = Len(life.pairs) + 1,
                  !.starts = Removed(@, i)]
    /\ UNCHANGED <<sampler_vars, gen, lru, ana, norm, thr, det, mem>>

LoopKinds == {"policy", "report"}

\* a created task runs for the first time: the head of its loop
LifeTaskBegin(p, kind) ==
    /\ life.pc = "ready"
    /\ p \in 1..Len(life.pairs)
    /\ life.pairs[p][kind] = "pending"
    /\ life' = [life EXCEPT !.pairs[p][kind] = LoopHead(life)]
    /\ UNCHANGED <<sampler_vars, gen, lru, ana, norm, thr, det, mem>>

\* _policy_refresh_loop: the sleep elapses and _refresh_policy issues the fetch
LifePolicyTick(p) ==
    /\ life.pc = "ready"
    /\ p \in 1..Len(life.pairs)
    /\ life.pairs[p].policy = "sleeping"
    /\ life' = [life EXCEPT !.pairs[p].policy = "fetching"]
    /\ UNCHANGED <<sampler_vars, gen, lru, ana, norm, thr, det, mem>>

\* get_active_policy answers the loop's fetch
LifePolicyAnswer(p, outcome) ==
    /\ life.pc = "ready"
    /\ p \in 1..Len(life.pairs)
    /\ life.pairs[p].policy = "fetching"
    /\ life' = [life EXCEPT !.pairs[p].policy = "answered", !.pairs[p].answer = outcome]
    /\ UNCHANGED <<sampler_vars, gen, lru, ana, norm, thr, det, mem>>

\* _refresh_policy resumes with the answer and the loop returns to its head
LifePolicyDone(p) ==
    /\ life.pc = "ready"
    /\ p \in 1..Len(life.pairs)
    /\ life.pairs[p].policy = "answered"
    /\ life' = [life EXCEPT !.policy = RefreshedPolicy(@, life.pairs[p].answer),
                            !.pairs[p].policy = LoopHead(life),
                            !.pairs[p].answer = NoAnswer]
    /\ UNCHANGED <<sampler_vars, gen, lru, ana, norm, thr, det, mem>>

\* _pattern_report_loop: the sleep elapses; _report_patterns returns at once on
\* an empty table, else it issues the report
LifeReportTick(p) ==
    /\ life.pc = "ready"
    /\ p \in 1..Len(life.pairs)
    /\ life.pairs[p].report = "sleeping"
    /\ life' = [life EXCEPT !.pairs[p].report =
                   IF life.pattern_stats = {} THEN LoopHead(life) ELSE "reporting"]
    /\ UNCHANGED <<sampler_vars, gen, lru, ana, norm, thr, det, mem>>

\* report_patterns answers the loop's report; the table is cleared on success
LifeReportDone(p, outcome) ==
    /\ life.pc = "ready"
    /\ p \in 1..Len(life.pairs)
    /\ life.pairs[p].report = "reporting"
    /\ life' = [life EXCEPT !.pattern_stats = IF outcome = "success" THEN {} ELSE @,
                            !.pairs[p].report = LoopHead(life)]
    /\ UNCHANGED <<sampler_vars, gen, lru, ana, norm, thr, det, mem>>

\* a cancelled task receives CancelledError at its await (or before its first
\* step) and ends
LifeCancelled(p, kind) ==
    /\ life.pc = "ready"
    /\ p \in 1..Len(life.pairs)
    /\ life.pairs[p][kind] = "cancelling"
    /\ life' = [life EXCEPT !.pairs[p][kind] = "done"]
    /\ UNCHANGED <<sampler_vars, gen, lru, ana, norm, thr, det, mem>>

\* a call site logs: should_sample tracks the pattern
LifeObserve ==
    /\ life.pc = "ready"
    /\ life.pattern_stats = {}
    /\ life' = [life EXCEPT !.pattern_stats = {LifeSignature}]
    /\ UNCHANGED <<sampler_vars, gen, lru, ana, norm, thr, det, mem>>

\* stop() from `await self._report_patterns()` on, in the state l: it returns
\* at once on an empty table, else it awaits the final report
FinalReport(l) ==
    IF l.pattern_stats = {}
    THEN [life |-> l, pc |-> "returned", pair |-> 0]
    ELSE [life |-> l, pc |-> "reporting", pair |-> 0]

\* stop() from `if self._report_task:` on: cancel and await the task
CancelReportTask(l) ==
    LET p == l._report_task
    IN IF p = 0 THEN FinalReport(l)
       ELSE IF l.pairs[p].report = "done" THEN FinalReport(l)
       ELSE [life |-> [l EXCEPT !.pairs[p].report = "cancelling"],
             pc |-> "await_report", pair |-> p]

\* stop() from `if self._policy_task:` on: cancel and await the task
CancelPolicyTask(l) ==
    LET p == l._policy_task
    IN IF p = 0 THEN CancelReportTask(l)
       ELSE IF l.pairs[p].policy = "done" THEN CancelReportTask(l)
       ELSE [life |-> [l EXCEPT !.pairs[p].policy = "cancelling"],
             pc |-> "await_policy", pair |-> p]

\* the calls in flight after stop() call i (0: a new call) ran up to r
StopsAfter(r, i) ==
    LET suspended == [pc |-> r.pc, pair |-> r.pair]
        stops == r.life.stops
    IN IF i = 0
       THEN (IF r.pc = "returned" THEN stops ELSE Append(stops, suspended))
       ELSE (IF r.pc = "returned" THEN Removed(stops, i)
             ELSE [stops EXCEPT ![i] = suspended])

\* stop() up to its first await that suspends
LifeStop ==
    /\ MayCall
    /\ life' = IF ~life._running
               THEN [life EXCEPT !.ncalls = @ + 1]
               ELSE LET r == CancelPolicyTask([life EXCEPT !.ncalls = @ + 1,
                                                            !._running = FALSE])
                    IN [r.life EXCEPT !.stops = StopsAfter(r, 0)]
    /\ UNCHANGED <<sampler_vars, gen, lru, ana, norm, thr, det, mem>>

\* the task stop() awaits has ended: stop() goes on to its next await
LifeStopResume(i) ==
    /\ life.pc = "ready"
    /\ i \in 1..Len(life.stops)
    /\ \/ /\ life.stops[i].pc = "await_policy"
          /\ life.pairs[life.stops[i].pair].policy = "done"
          /\ LET r == CancelReportTask(life)
             IN life' = [r.life EXCEPT !.stops = StopsAfter(r, i)]
       \/ /\ life.stops[i].pc = "await_report"
          /\ life.pairs[life.stops[i].pair].report = "done"
          /\ LET r == FinalReport(life)
             IN life' = [r.life EXCEPT !.stops = StopsAfter(r, i)]
    /\ UNCHANGED <<sampler_vars, gen, lru, ana, norm, thr, det, mem>>

\* report_patterns answers stop()'s final report; stop() returns
LifeStopReportDone(i, outcome) ==
    /\ life.pc = "ready"
    /\ i \in 1..Len(life.stops)
    /\ life.stops[i].pc = "reporting"
    /\ life' = [life EXCEPT !.pattern_stats = IF outcome = "success" THEN {} ELSE @,
                            !.stops = Removed(@, i)]
    /\ UNCHANGED <<sampler_vars, gen, lru, ana, norm, thr, det, mem>>

LifeNext ==
    \/ AppLoopStarts
    \/ LifeStart
    \/ \E i \in 1..MaxLifeCalls, outcome \in FetchOutcomes : LifeFetchAnswer(i, outcome)
    \/ \E i \in 1..MaxLifeCalls : LifeStartResume(i)
    \/ \E p \in 1..MaxLifeCalls, kind \in LoopKinds : LifeTaskBegin(p, kind)
    \/ \E p \in 1..MaxLifeCalls : LifePolicyTick(p)
    \/ \E p \in 1..MaxLifeCalls, outcome \in FetchOutcomes : LifePolicyAnswer(p, outcome)
    \/ \E p \in 1..MaxLifeCalls : LifePolicyDone(p)
    \/ \E p \in 1..MaxLifeCalls : LifeReportTick(p)
    \/ \E p \in 1..MaxLifeCalls, outcome \in ReportOutcomes : LifeReportDone(p, outcome)
    \/ \E p \in 1..MaxLifeCalls, kind \in LoopKinds : LifeCancelled(p, kind)
    \/ LifeObserve
    \/ LifeStop
    \/ \E i \in 1..MaxLifeCalls : LifeStopResume(i)
    \/ \E i \in 1..MaxLifeCalls, outcome \in ReportOutcomes : LifeStopReportDone(i, outcome)

LifeSpec == LifeInit /\ [][LifeNext]_vars

----------------------------------------------------------------------------
(* Claims about the sampler's coroutines *)

\* positions of a loop task that has not ended and is not being cancelled
Alive == {"pending", "sleeping", "fetching", "answered", "reporting"}

\* C25: whenever the sampler is running and no start() call is in flight, the
\* policy-refresh task and the pattern-report task it holds are both alive.
C25_RunningLoopsAlive ==
    (life.pc = "ready" /\ life._running /\ life.starts = <<>>) =>
        /\ life._policy_task # 0
        /\ life._report_task # 0
        /\ life.pairs[life._policy_task].policy \in Alive
        /\ life.pairs[life._report_task].report \in Alive

\* C26: whatever start() and stop() calls are made and however they interleave,
\* at most one policy-refresh loop and at most one pattern-report loop are
\* alive.
C26_SinglePairOfLoops ==
    life.pc = "ready" =>
        /\ Cardinality({ p \in 1..Len(life.pairs) : life.pairs[p].policy \in Alive }) <= 1
        /\ Cardinality({ p \in 1..Len(life.pairs) : life.pairs[p].report \in Alive }) <= 1

\* start() call i returns in this step
StartReturns(i) ==
    /\ life.starts[i].pc = "answered"
    /\ Len(life'.starts) = Len(life.starts) - 1
    /\ \A j \in 1..Len(life'.starts) :
          life'.starts[j] = IF j < i THEN life.starts[j] ELSE life.starts[j + 1]

\* the refresh of the policy loop of pair p resumes in this step
LoopRefreshReturns(p) ==
    /\ life.pairs[p].policy = "answered"
    /\ life'.pairs[p].policy \in {"sleeping", "done"}

\* C30: a refresh whose fetch gave no policy (the store has none, the fetch
\* failed, or the client raised) leaves the policy reference as it was, and no
\* refresh changes the pattern-stats table.
C30_FailedRefreshKeepsPolicy ==
    [][life.pc = "ready" =>
        /\ \A i \in 1..Len(life.starts) :
              StartReturns(i) =>
                 /\ life'.pattern_stats = life.pattern_stats
                 /\ life.starts[i].answer.kind \in {"none", "raise"} =>
                        life'.policy = life.policy
        /\ \A p \in 1..Len(life.pairs) :
              LoopRefreshReturns(p) =>
                 /\ life'.pattern_stats = life.pattern_stats
                 /\ life.pairs[p].answer.kind \in {"none", "raise"} =>
                        life'.policy = life.policy]_vars

\* C30 witness: a policy is loaded, a pattern is tracked, and the refresh loop
\* holds the answer of a fetch that raised while a start() call holds the
\* answer of a store that has no policy
C30_Witness ==
    /\ life.pc = "ready"
    /\ life.policy # None
    /\ life.pattern_stats # {}
    /\ \E p \in 1..Len(life.pairs) :
          /\ life.pairs[p].policy = "answered"
          /\ life.pairs[p].answer.kind = "raise"
    /\ \E i \in 1..Len(life.starts) :
          /\ life.starts[i].pc = "answered"
          /\ life.starts[i].answer.kind = "none"

----------------------------------------------------------------------------
(* AnomalyDetector (src/engine/anomaly_detector.py).  Rates are whole numbers
   of one unit; the quotient of two of them is compared exactly, and a float
   that is a quotient is kept as the pair of its terms. *)

\* the largest current rate and the largest baseline rate passed in
MaxRate == 12
MaxBaseline == 3

\* `return None`
NoAnomaly == [anomaly_type |-> "none"]

\* variant: the thresholds are exclusive
RatioAbove(current, baseline, k) == current > k * baseline

\* `ratio >= k` for ratio = current / baseline, baseline > 0
RatioAtLeast(current, baseline, k) == current >= k * baseline

\* min(ratio / d, 1.0)
CappedRatio(current, baseline, d) ==
    IF current >= d * baseline THEN Ratio(1, 1) ELSE Ratio(current, d * baseline)

\* AnomalyDetector.detect_rate_anomaly
detect_rate_anomaly(current_rate, baseline_rate) ==
    LET spike(severity, confidence) ==
            [pattern_signature |-> "global_rate",
             anomaly_type |-> "rate_spike",
             severity |-> severity,
             current_value |-> Ratio(current_rate, 1),
             baseline_value |-> Ratio(baseline_rate, 1),
             confidence |-> confidence]
    IN IF baseline_rate = 0 THEN NoAnomaly
       ELSE IF RatioAtLeast(current_rate, baseline_rate, 5)
       THEN spike("high", CappedRatio(current_rate, baseline_rate, 10))
       ELSE IF RatioAtLeast(current_rate, baseline_rate, 3)
       THEN spike("medium", Ratio(7, 10))
       ELSE IF RatioAtLeast(current_rate, baseline_rate, 2)
       THEN spike("low", Ratio(1, 2))
       ELSE NoAnomaly

\* variant: a surge is never more than medium
SurgeAlwaysMedium(current, baseline) == "medium"

\* `"high" if ratio >= 4.0 else "medium"`
SurgeSeverity(current, baseline) ==
    IF current >= 4 * baseline THEN "high" ELSE "medium"

\* AnomalyDetector.detect_error_surge (total_logs is accepted and not used)
detect_error_surge(current_error_rate, baseline_error_rate, total_logs) ==
    LET surge(severity, baseline_value, confidence) ==
            [pattern_signature |-> "error_rate",
             anomaly_type |-> "error_surge",
             severity |-> severity,
             current_value |-> Ratio(current_error_rate, 1),
             baseline_value |-> baseline_value,
             confidence |-> confidence]
    IN IF baseline_error_rate = 0 /\ current_error_rate > 0
       THEN surge("high", Ratio(0, 1), Ratio(9, 10))
       ELSE IF baseline_error_rate = 0 THEN NoAnomaly
       ELSE IF current_error_rate >= 2 * baseline_error_rate
       THEN surge(SurgeSeverity(current_error_rate, baseline_error_rate),
                  Ratio(baseline_error_rate, 1),
                  CappedRatio(current_error_rate, baseline_error_rate, 5))
       ELSE NoAnomaly

\* a detector and the rates of one call
DetInit ==
    /\ SamplerInit
    /\ gen = GenIdle
    /\ lru = NotInUse
    /\ ana = NotInUse
    /\ norm = NotInUse
    /\ life = NotInUse
    /\ thr = NotInUse
    /\ mem = NotInUse
    /\ \E current \in 0..MaxRate, baseline \in 0..MaxBaseline, total \in {0, 1000} :
          det = [pc |-> "start", current |-> current, baseline |-> baseline,
                 total_logs |-> total, result |-> NoAnomaly]

\* detector.detect_rate_anomaly(current, baseline)
DetectRate ==
    /\ det.pc = "start"
    /\ det' = [det EXCEPT !.pc = "rate_done",
                          !.result = detect_rate_anomaly(det.current, det.baseline)]
    /\ UNCHANGED <<sampler_vars, gen, lru, ana, norm, life, thr, mem>>

\* detector.detect_error_surge(current, baseline, total_logs)
DetectErrorSurge ==
    /\ det.pc = "start"
    /\ det' = [det EXCEPT !.pc = "error_done",
                          !.result = detect_error_surge(det.current, det.baseline,
                                                        det.total_logs)]
    /\ UNCHANGED <<sampler_vars, gen, lru, ana, norm, life, thr, mem>>

DetNext ==
    \/ DetectRate
    \/ DetectErrorSurge

DetSpec == DetInit /\ [][DetNext]_vars

C22_ErrorSurgeBands ==
    det.pc = "error_done" =>
        LET c == det.current
            b == det.baseline
            r == det.result
        IN /\ (b = 0 /\ c > 0) => (r.anomaly_type = "error_surge" /\ r.severity = "high")
           /\ (b = 0 /\ c = 0) => r = [anomaly_type |-> "none"]
           /\ (b > 0 /\ c < 2 * b) => r = [anomaly_type |-> "none"]
           /\ (b > 0 /\ c >= 2 * b /\ c < 4 * b) =>
                 (r.anomaly_type = "error_surge" /\ r.severity = "medium")
           /\ (b > 0 /\ c >= 4 * b) =>
                 (r.anomaly_type = "error_surge" /\ r.severity = "high")

\* C22 witness: a call whose ratio is exactly 4, answered with a high surge
C22_Witness ==
    /\ det.pc = "error_done"
    /\ det.baseline = 2
    /\ det.current = 8
    /\ det.result.anomaly_type = "error_surge"
    /\ det.result.severity = "high"

\* ---------------------------------------------------------------------------
\* PatternMemory (src/src/adaptive_filtering/__init__.py): the learned patterns
\* kept by DynamicPatternLearner.  `patterns` is the dict in insertion order,
\* each entry a pattern_id with the last_seen of the LogPattern stored under it.
\* ---------------------------------------------------------------------------

\* pattern ids are 1..MaxPatternIds; last_seen is an earlier or a later time
MaxPatternIds == 10
SeenValues == {1, 2}

\* the limit test_pattern_eviction configures (memory.max_patterns = 5)
SmallLimit == 5

\* the position of pattern_id in the dict, 0 when it is not a key
RECURSIVE KeyIndex(_, _, _)
KeyIndex(patterns, pattern_id, k) ==
    IF k > Len(patterns) THEN 0
    ELSE IF patterns[k].pattern_id = pattern_id THEN k
    ELSE KeyIndex(patterns, pattern_id, k + 1)

\* self.patterns[pattern.pattern_id] = pattern: an existing key keeps its
\* place in the dict, a new key goes to the end
StorePattern(patterns, pattern) ==
    LET i == KeyIndex(patterns, pattern.pattern_id, 1)
    IN IF i = 0 THEN Append(patterns, pattern)
       ELSE [patterns EXCEPT ![i] = pattern]

\* the position of the first entry of sorted(items, key=last_seen): the
\* earliest last_seen, and among equals the one first in the dict
OldestIndex(patterns) ==
    CHOOSE i \in 1..Len(patterns) :
        \A j \in 1..Len(patterns) :
            \/ patterns[i].last_seen < patterns[j].last_seen
            \/ (patterns[i].last_seen = patterns[j].last_seen /\ i <= j)

\* del self.patterns[pattern_id] for the first `count` entries of the sorted list
RECURSIVE DeleteOldest(_, _)
DeleteOldest(patterns, count) ==
    IF count = 0 \/ patterns = <<>> THEN patterns
    ELSE LET i == OldestIndex(patterns)
         IN DeleteOldest(SubSeq(patterns, 1, i - 1) \o
                         SubSeq(patterns, i + 1, Len(patterns)), count - 1)

\* evict_count = len(sorted_patterns) // 10
evict_count(patterns) == Len(patterns) \div 10

_evict_old_patterns(patterns) == DeleteOldest(patterns, evict_count(patterns))

\* PatternMemory.add_pattern
add_pattern(patterns, max_patterns, pattern) ==
    LET stored == StorePattern(patterns, pattern)
    IN IF Len(stored) > max_patterns THEN _evict_old_patterns(stored)
       ELSE stored

\* memory = PatternMemory(); memory.max_patterns = <limit>
MemInit ==
    /\ SamplerInit
    /\ gen = GenIdle
    /\ lru = NotInUse
    /\ ana = NotInUse
    /\ norm = NotInUse
    /\ life = NotInUse
    /\ thr = NotInUse
    /\ det = NotInUse
    /\ \E limit \in {1, SmallLimit} :
          mem = [pc |-> "ready", max_patterns |-> limit, patterns |-> <<>>,
                 fresh |-> 1]

\* memory.add_pattern(LogPattern(pattern_id, ..., last_seen)): the id is a key
\* of the dict or the next unused one (an evicted id that comes back is a new
\* key like any other)
AddPattern(pattern_id, last_seen) ==
    /\ mem.pc = "ready"
    /\ \/ pattern_id = mem.fresh
       \/ KeyIndex(mem.patterns, pattern_id, 1) > 0
    /\ mem' = [mem EXCEPT
                 !.patterns = add_pattern(mem.patterns, mem.max_patterns,
                                          [pattern_id |-> pattern_id,
                                           last_seen |-> last_seen]),
                 !.fresh = IF pattern_id = mem.fresh THEN mem.fresh + 1
                           ELSE mem.fresh]
    /\ UNCHANGED <<sampler_vars, gen, lru, ana, norm, life, thr, det>>

MemNext ==
    \E pattern_id \in 1..MaxPatternIds, last_seen \in SeenValues :
        AddPattern(pattern_id, last_seen)

MemSpec == MemInit /\ [][MemNext]_vars

\* C24: whatever add_pattern calls were made, the number of stored patterns is
\* at most max_patterns, also for a small limit such as 5.
C24_PatternsBounded ==
    mem.pc = "ready" => Len(mem.patterns) <= mem.max_patterns

====
